---- MODULE Spec2Model ----
(***************************************************************************)
(* Verification model of the image-processing pipeline: the envelope codec *)
(* (pkg/message), the POST /submit fanout publisher (internal/handler),    *)
(* and the image worker pool (internal/worker).                            *)
(*                                                                         *)
(* Conventions.                                                            *)
(*   - A Go string is a TLA+ string.  The strings of the model that are    *)
(*     not valid UTF-8 are listed in InvalidUTF8.                          *)
(*   - A Go pointer (or a byte slice that may be nil) is a tuple: <<>> is  *)
(*     nil, <<v>> points to v.                                             *)
(*   - A Go slice of strings is a sequence; nil and empty are not          *)
(*     distinguished.                                                      *)
(*   - A JSON text is a record [kind, ...]: "invalid" (not JSON), "null",  *)
(*     "string" (s, and t when s is an RFC 3339 instant), "number" (n),    *)
(*     "array" (a, of strings), "object" (o, a record of JSON texts).      *)
(***************************************************************************)
EXTENDS Integers, Sequences, FiniteSets, TLC

\* ------------------------------------------------------------------------
\* Bounds of the model
\* ------------------------------------------------------------------------
MaxClock == 2

MaxUrls == 2

MaxTypes == 2

MaxDeliveries == 2

PoolDeliveries == 6

MaxResults == 2

MaxRequests == 3

\* ------------------------------------------------------------------------
\* State
\* ------------------------------------------------------------------------
VARIABLES
    now,          \* wall clock, time.Now()
    cpc,          \* codec harness: position
    cargs,        \* codec harness: arguments of the last Encode
    cenc,         \* codec harness: result of the last Encode
    cdata,        \* codec harness: bytes handed to the last Decode
    cdec,         \* codec harness: result of the last Decode
    chClosed,     \* url-ingestor: the broker channel is closed
    workQueue,    \* broker queue "image.urls": the messages published to it
    hpc,          \* POST /submit handler: position
    hbody,        \* POST /submit handler: request body, <<>> when empty
    hjob,         \* POST /submit handler: var job models.ImageJob
    hTraceID,     \* POST /submit handler: traceID, the X-Trace-ID header
    hi,           \* POST /submit handler: index of the url of the outer loop
    hk,           \* POST /submit handler: 0 before the url's original job,
                  \*   else index of the entry of the inner loop
    totalJobs,    \* POST /submit handler: local counter
    hresp,        \* POST /submit handler: the response written
    hpub,         \* history: messages this request has published
    hattempts,    \* history: calls of ch.Publish this request has made
    imagesSubmitted,  \* counter images_submitted_total
    wClosed,      \* image-fetcher: the broker channel is closed
    delivered,    \* history: messages handed to "image.urls" by other producers
    lpc,          \* Start: position of the consume loop
    lmsg,         \* Start: msg, the delivery the loop holds, <<>> when none
    sem,          \* Start: tokens in the channel sem
    wg,           \* Start: counter of the sync.WaitGroup
    ActiveWorkers,    \* gauge active_workers{image-fetcher}
    tasks,        \* the goroutines Start has spawned, in order
    resultQueue,  \* broker queue "image.processed": the messages published to it
    rtask,        \* history: the task that published each message of resultQueue
    crashed,      \* the worker process has died of a panic
    JobsProcessed,    \* counter jobs_processed_total, by status
    ImagesProcessed,  \* counter images_processed_total, by status
    pClosed,      \* image-metadata: the broker channel is closed
    ppc,          \* ConsumeAndStore: position of the loop
    pmsg,         \* ConsumeAndStore: the message msg the loop body is handling
    db,           \* the table of image records, in insertion order
    recordsStored,    \* counter records_stored_total, by status
    pseen,        \* history: the messages ConsumeAndStore has consumed
    rarrived,     \* history: messages handed to "image.processed" by other producers
    chAbsent,     \* url-ingestor: the router was built with a nil channel
    statusLog     \* history: the calls of GET /status and GET /queue/status

codecVars == <<cpc, cargs, cenc, cdata, cdec>>

\* the handler's variables but the queue it publishes to
handlerVars == <<chClosed, hpc, hbody, hjob, hTraceID, hi, hk, totalJobs, hresp, hpub,
                 hattempts, imagesSubmitted>>

submitVars == <<workQueue, handlerVars>>

workerVars == <<wClosed, delivered, lpc, lmsg, sem, wg, ActiveWorkers, tasks, resultQueue,
                rtask, crashed, JobsProcessed, ImagesProcessed>>

persistVars == <<pClosed, ppc, pmsg, db, recordsStored, pseen, rarrived>>

statusVars == <<chAbsent, statusLog>>

vars == <<now, codecVars, submitVars, workerVars, persistVars, statusVars>>

\* ------------------------------------------------------------------------
\* encoding/json as used by the codec
\* ------------------------------------------------------------------------
InvalidUTF8 == {"bad-xFF"}

\* encoding/json coerces strings to valid UTF-8, on Marshal and on Unmarshal:
\* every invalid byte becomes U+FFFD.
ToValidUTF8(s) == IF s = "bad-xFF" THEN "bad-uFFFD" ELSE s

JNull == [kind |-> "null"]

JAbsent == [kind |-> "absent"]

JInvalid == [kind |-> "invalid"]

JString(s) == [kind |-> "string", s |-> s]

JNumber(n) == [kind |-> "number", n |-> n]

JArray(a) == [kind |-> "array", a |-> a]

JObject(o) == [kind |-> "object", o |-> o]

\* the JSON string that time.Time marshals to for the instant t
JTime(t) == [kind |-> "string", s |-> "RFC3339", t |-> t]

\* member of a JSON object, JAbsent when the object has no such member
Member(obj, name) == IF name \in DOMAIN obj.o THEN obj.o[name] ELSE JAbsent

ZeroTime == 0

MarshalString(s) == JString(ToValidUTF8(s))

MarshalStrings(l) ==
    IF l = <<>> THEN JNull
    ELSE JArray([i \in DOMAIN l |-> ToValidUTF8(l[i])])

\* json.Marshal(payload): [err, body].  A value of a type encoding/json does
\* not support (a channel, a func) is an UnsupportedTypeError.
Marshal(payload) ==
    CASE payload.type = "ImageJob" ->
           [err |-> FALSE,
            body |-> JObject([urls |-> MarshalStrings(payload.URLs),
                              processing_types |-> MarshalStrings(payload.ProcessingTypes)])]
      [] payload.type = "ImageProcessedPayload" ->
           LET o == [source_url |-> MarshalString(payload.SourceURL),
                     s3_path |-> MarshalString(payload.S3Path),
                     status |-> MarshalString(payload.Status),
                     trace_id |-> MarshalString(payload.TraceID),
                     width |-> JNumber(payload.Width),
                     height |-> JNumber(payload.Height),
                     format |-> MarshalString(payload.Format),
                     file_size |-> JNumber(payload.FileSize),
                     processing_type |-> MarshalString(payload.ProcessingType)]
           IN [err |-> FALSE,
               \* error_msg is tagged omitempty
               body |-> JObject(IF payload.ErrorMsg = "" THEN o
                                ELSE o @@ [error_msg |-> MarshalString(payload.ErrorMsg)])]
      [] OTHER -> [err |-> TRUE, body |-> JInvalid]

\* json.Unmarshal of one member into a Go string field: [err, v]
UnmarshalString(j) ==
    CASE j.kind = "string" -> [err |-> FALSE, v |-> ToValidUTF8(j.s)]
      [] j.kind \in {"null", "absent"} -> [err |-> FALSE, v |-> ""]
      [] OTHER -> [err |-> TRUE, v |-> ""]

\* json.Unmarshal of one member into a Go []string field: [err, v]
UnmarshalStrings(j) ==
    CASE j.kind = "array" -> [err |-> FALSE, v |-> [i \in DOMAIN j.a |-> ToValidUTF8(j.a[i])]]
      [] j.kind \in {"null", "absent"} -> [err |-> FALSE, v |-> <<>>]
      [] OTHER -> [err |-> TRUE, v |-> <<>>]

\* json.Unmarshal of one member into a Go int field: [err, v]
UnmarshalInt(j) ==
    CASE j.kind = "number" -> [err |-> FALSE, v |-> j.n]
      [] j.kind \in {"null", "absent"} -> [err |-> FALSE, v |-> 0]
      [] OTHER -> [err |-> TRUE, v |-> 0]

\* json.Unmarshal of one member into a time.Time field: [err, v]
UnmarshalTime(j) ==
    CASE j.kind = "string" /\ j.s = "RFC3339" -> [err |-> FALSE, v |-> j.t]
      [] j.kind \in {"null", "absent"} -> [err |-> FALSE, v |-> ZeroTime]
      [] OTHER -> [err |-> TRUE, v |-> ZeroTime]

\* models.ImageJob{}: the zero value
ZeroImageJob == [type |-> "ImageJob", URLs |-> <<>>, ProcessingTypes |-> <<>>]

ImageJobOf(urls, types) == [type |-> "ImageJob", URLs |-> urls, ProcessingTypes |-> types]

\* models.ImageProcessedPayload{}: the zero value
ZeroImageProcessedPayload ==
    [type |-> "ImageProcessedPayload", SourceURL |-> "", S3Path |-> "", Status |-> "",
     ErrorMsg |-> "", TraceID |-> "", Width |-> 0, Height |-> 0, Format |-> "", FileSize |-> 0,
     ProcessingType |-> ""]

\* json.Unmarshal(raw, &payload) for payload of type T: [err, v].  raw is a
\* tuple: <<>> is the empty input, which is a syntax error.
UnmarshalPayload(T, raw) ==
    LET zero == IF T = "ImageJob" THEN ZeroImageJob ELSE ZeroImageProcessedPayload IN
    IF raw = <<>> THEN [err |-> TRUE, v |-> zero]
    ELSE LET j == raw[1] IN
      CASE j.kind = "null" -> [err |-> FALSE, v |-> zero]
        [] j.kind = "object" /\ T = "ImageJob" ->
             LET u == UnmarshalStrings(Member(j, "urls"))
                 p == UnmarshalStrings(Member(j, "processing_types"))
             IN [err |-> u.err \/ p.err,
                 v |-> [type |-> "ImageJob", URLs |-> u.v, ProcessingTypes |-> p.v]]
        [] j.kind = "object" /\ T = "ImageProcessedPayload" ->
             LET su == UnmarshalString(Member(j, "source_url"))
                 sp == UnmarshalString(Member(j, "s3_path"))
                 st == UnmarshalString(Member(j, "status"))
                 em == UnmarshalString(Member(j, "error_msg"))
                 tr == UnmarshalString(Member(j, "trace_id"))
                 wi == UnmarshalInt(Member(j, "width"))
                 he == UnmarshalInt(Member(j, "height"))
                 fo == UnmarshalString(Member(j, "format"))
                 fs == UnmarshalInt(Member(j, "file_size"))
                 pt == UnmarshalString(Member(j, "processing_type"))
             IN [err |-> su.err \/ sp.err \/ st.err \/ em.err \/ tr.err \/ wi.err \/ he.err
                           \/ fo.err \/ fs.err \/ pt.err,
                 v |-> [type |-> "ImageProcessedPayload", SourceURL |-> su.v,
                        S3Path |-> sp.v, Status |-> st.v, ErrorMsg |-> em.v,
                        TraceID |-> tr.v,
                        Width |-> wi.v, Height |-> he.v, Format |-> fo.v,
                        FileSize |-> fs.v, ProcessingType |-> pt.v]]
        [] OTHER -> [err |-> TRUE, v |-> zero]

\* Envelope{}: the zero value.  Payload is a json.RawMessage: <<>> is nil.
ZeroEnvelope == [TraceID |-> "", Source |-> "", Timestamp |-> ZeroTime, Payload |-> <<>>]

\* json.Unmarshal(data, &env): [err, v]
UnmarshalEnvelope(data) ==
    CASE data.kind = "null" -> [err |-> FALSE, v |-> ZeroEnvelope]
      [] data.kind = "object" ->
           LET tr == UnmarshalString(Member(data, "trace_id"))
               so == UnmarshalString(Member(data, "source"))
               ts == UnmarshalTime(Member(data, "timestamp"))
               pl == Member(data, "payload")
           IN [err |-> tr.err \/ so.err \/ ts.err,
               v |-> [TraceID |-> tr.v, Source |-> so.v, Timestamp |-> ts.v,
                      Payload |-> IF pl.kind = "absent" THEN <<>> ELSE <<pl>>]]
      [] OTHER -> [err |-> TRUE, v |-> ZeroEnvelope]

\* ------------------------------------------------------------------------
\* pkg/message: the envelope codec
\* ------------------------------------------------------------------------
\* Encode with the trace id and the source written to each other's field
EncodeSwapped(traceID, source, payload, clock) ==
    LET m == Marshal(payload) IN
    IF m.err THEN [err |-> TRUE, data |-> <<>>]
    ELSE [err |-> FALSE,
          data |-> <<JObject([trace_id |-> MarshalString(source),
                              source |-> MarshalString(traceID),
                              timestamp |-> JTime(clock),
                              payload |-> m.body])>>]

\* Encode(traceID, source, payload) at wall-clock time clock: [err, data]
Encode(traceID, source, payload, clock) ==
    LET m == Marshal(payload) IN
    IF m.err THEN [err |-> TRUE, data |-> <<>>]
    ELSE [err |-> FALSE,
          data |-> <<JObject([trace_id |-> MarshalString(traceID),
                              source |-> MarshalString(source),
                              timestamp |-> JTime(clock),
                              payload |-> m.body])>>]

\* Decode returning no envelope when only the payload fails to deserialize
DecodeDropsEnvelope(T, data) ==
    LET e == UnmarshalEnvelope(data) IN
    IF e.err THEN [env |-> <<>>, payload |-> <<>>, err |-> TRUE]
    ELSE LET p == UnmarshalPayload(T, e.v.Payload) IN
         IF p.err THEN [env |-> <<>>, payload |-> <<>>, err |-> TRUE]
         ELSE [env |-> <<e.v>>, payload |-> <<p.v>>, err |-> FALSE]

\* Decode[T](data): [env, payload, err]; env and payload are pointers
Decode(T, data) ==
    LET e == UnmarshalEnvelope(data) IN
    IF e.err THEN [env |-> <<>>, payload |-> <<>>, err |-> TRUE]
    ELSE LET p == UnmarshalPayload(T, e.v.Payload) IN
         IF p.err THEN [env |-> <<e.v>>, payload |-> <<>>, err |-> TRUE]
         ELSE [env |-> <<e.v>>, payload |-> <<p.v>>, err |-> FALSE]

\* ------------------------------------------------------------------------
\* internal/handler: POST /submit, the job fanout publisher
\* ------------------------------------------------------------------------
\* a map of allowed types with one more key
allowedProcessingTypesAndMore == {"original", "grayscale", "resize", "blur", "sharpen", "bogus"}

allowedProcessingTypes == {"original", "grayscale", "resize", "blur", "sharpen"}

getAllowedProcessingTypes == <<"original", "grayscale", "resize", "blur", "sharpen">>

RECURSIVE validateFrom(_, _, _)
\* the loop of validateProcessingTypes from entry i on, invalid the slice so far
validateFrom(types, i, invalid) ==
    IF i > Len(types) THEN invalid
    ELSE IF types[i] \notin allowedProcessingTypes
         THEN validateFrom(types, i + 1, Append(invalid, types[i]))
         ELSE validateFrom(types, i + 1, invalid)

\* validateProcessingTypes that reports no entry
validateNothing(types) == <<>>

validateProcessingTypes(types) == validateFrom(types, 1, <<>>)

\* publishJob that ignores the processing type it is given
publishJobAlwaysOriginal(closed, queue, trace, url, processingType, clock) ==
    LET encoded == Encode(trace, "url-ingestor", ImageJobOf(<<url>>, <<"original">>), clock)
    IN IF closed THEN [err |-> TRUE, queue |-> queue]
       ELSE [err |-> FALSE,
             queue |-> Append(queue, [ContentType |-> "application/json",
                                      Body |-> encoded.data])]

\* publishJob(ctx, ch, traceID, url, processingType): [err, queue].  The error
\* of Encode is discarded; ch.Publish fails on a closed channel.
publishJob(closed, queue, trace, url, processingType, clock) ==
    LET encoded == Encode(trace, "url-ingestor", ImageJobOf(<<url>>, <<processingType>>), clock)
    IN IF closed THEN [err |-> TRUE, queue |-> queue]
       ELSE [err |-> FALSE,
             queue |-> Append(queue, [ContentType |-> "application/json",
                                      Body |-> encoded.data])]

NoResponse == [code |-> 0, body |-> "none", invalid_types |-> <<>>, allowed_types |-> <<>>]

Response(code, body) ==
    [code |-> code, body |-> body, invalid_types |-> <<>>, allowed_types |-> <<>>]

SubmitIdle ==
    /\ chClosed = FALSE
    /\ workQueue = <<>>
    /\ hpc = "idle"
    /\ hbody = <<>>
    /\ hjob = ZeroImageJob
    /\ hTraceID = ""
    /\ hi = 0
    /\ hk = 0
    /\ totalJobs = 0
    /\ hresp = NoResponse
    /\ hpub = <<>>
    /\ hattempts = 0
    /\ imagesSubmitted = 0

\* the outer loop stepping over a url
NextPositionSkipsUrl(i, k) == IF k < Len(hjob.ProcessingTypes) THEN <<i, k + 1>> ELSE <<i + 2, 0>>

\* the loop position after the iteration at <<i, k>>
NextPosition(i, k) == IF k < Len(hjob.ProcessingTypes) THEN <<i, k + 1>> ELSE <<i + 1, 0>>

\* the inner loop without its "continue" on an explicit original
IsSkippedNever(k) == FALSE

\* the inner loop skips an explicitly requested original
IsSkipped(k) == k > 0 /\ hjob.ProcessingTypes[k] = "original"

\* the handler going on with the loop after a failed publish
PublishFailedContinues == "fanout"

\* where the handler is after a failed publish: it has returned
PublishFailedPc == "done"

\* the handler going on to the fanout after a body that did not parse
ParseFailedContinues == "fanout"

\* where the handler is after a body that did not parse: it has returned
ParseFailedPc == "done"

\* the handler up to the start of the fanout loop: parse, validate, read the
\* trace id
SubmitRequest(body, trace) ==
    /\ hpc = "idle"
    /\ hbody' = body
    /\ LET d == UnmarshalPayload("ImageJob", body)
           invalidTypes == validateProcessingTypes(d.v.ProcessingTypes)
       IN IF d.err
          THEN /\ hresp' = Response(400, "text")
               /\ hpc' = ParseFailedPc
               /\ UNCHANGED <<hjob, hTraceID, hi, hk>>
          ELSE IF Len(invalidTypes) > 0
          THEN /\ hresp' = [code |-> 400, body |-> "json",
                            invalid_types |-> invalidTypes,
                            allowed_types |-> getAllowedProcessingTypes]
               /\ hjob' = d.v
               /\ hpc' = "done"
               /\ UNCHANGED <<hTraceID, hi, hk>>
          ELSE /\ hjob' = d.v
               /\ hTraceID' = trace
               /\ hi' = 1
               /\ hk' = 0
               /\ hpc' = "fanout"
               /\ UNCHANGED hresp
    /\ UNCHANGED <<statusVars, persistVars, workerVars, now, codecVars, chClosed, workQueue, totalJobs, hpub, hattempts,
                   imagesSubmitted>>

\* one iteration of the fanout that calls publishJob
FanoutPublish ==
    /\ hpc = "fanout"
    /\ hi <= Len(hjob.URLs)
    /\ ~IsSkipped(hk)
    /\ LET processingType == IF hk = 0 THEN "original" ELSE hjob.ProcessingTypes[hk]
           r == publishJob(chClosed, workQueue, hTraceID, hjob.URLs[hi], processingType, now)
       IN /\ hattempts' = hattempts + 1
          /\ IF r.err
             THEN /\ hresp' = Response(500, "text")
                  /\ hpc' = PublishFailedPc
                  /\ UNCHANGED <<workQueue, totalJobs, hpub, hi, hk>>
             ELSE /\ workQueue' = r.queue
                  /\ hpub' = Append(hpub, r.queue[Len(r.queue)])
                  /\ totalJobs' = totalJobs + 1
                  /\ hi' = NextPosition(hi, hk)[1]
                  /\ hk' = NextPosition(hi, hk)[2]
                  /\ UNCHANGED <<hresp, hpc>>
    /\ UNCHANGED <<statusVars, persistVars, workerVars, now, codecVars, chClosed, hbody, hjob, hTraceID, imagesSubmitted>>

\* one iteration of the inner loop that skips an explicit original
FanoutSkip ==
    /\ hpc = "fanout"
    /\ hi <= Len(hjob.URLs)
    /\ IsSkipped(hk)
    /\ hi' = NextPosition(hi, hk)[1]
    /\ hk' = NextPosition(hi, hk)[2]
    /\ UNCHANGED <<statusVars, persistVars, workerVars, now, codecVars, chClosed, workQueue, hpc, hbody, hjob, hTraceID,
                   totalJobs, hresp, hpub, hattempts, imagesSubmitted>>

\* the end of the handler after the loops
SubmitAccepted ==
    /\ hpc = "fanout"
    /\ hi > Len(hjob.URLs)
    /\ imagesSubmitted' = imagesSubmitted + totalJobs
    /\ hresp' = Response(202, "none")
    /\ hpc' = "done"
    /\ UNCHANGED <<statusVars, persistVars, workerVars, now, codecVars, chClosed, workQueue, hbody, hjob, hTraceID, hi, hk,
                   totalJobs, hpub, hattempts>>

\* the broker connection of the url-ingestor is lost
ChannelClose ==
    /\ ~chClosed
    /\ chClosed' = TRUE
    /\ UNCHANGED <<statusVars, persistVars, workerVars, now, codecVars, workQueue, hpc, hbody, hjob, hTraceID, hi, hk,
                   totalJobs, hresp, hpub, hattempts, imagesSubmitted>>

\* ------------------------------------------------------------------------
\* internal/worker: the image worker pool
\* ------------------------------------------------------------------------
concurrencyLimit == 5

\* a send on sem that never blocks
CanAcquireAlways(s) == TRUE

\* sem <- struct{}{} can proceed: the channel of capacity concurrencyLimit
\* holds s tokens and is not full
CanAcquire(s) == s < concurrencyLimit

\* a switch with a case for every string
anyProcessingType == {"original", "grayscale", "resize", "blur", "sharpen", "bogus"}

\* the cases of the switch of processImage
supportedProcessingTypes == {"original", "grayscale", "resize", "blur", "sharpen"}

\* the image DownloadImage decodes from the body served at url; images are
\* sequences, the nil image the empty one
DownloadImage(url) == <<url>>

\* the filters of the ImageProcessor: each returns a new image made from img
Grayscale(img) == <<"grayscale">> \o img

Resize(img, width, height) == <<"resize", width, height>> \o img

Blur(img, sigma) == <<"blur", sigma>> \o img

Sharpen(img, sigma) == <<"sharpen", sigma>> \o img

\* processedImg after the switch of processImage
processedImg(processingType, img) ==
    CASE processingType = "original" -> img
      [] processingType = "grayscale" -> Grayscale(img)
      [] processingType = "resize" -> Resize(img, 100, 100)
      [] processingType = "blur" -> Blur(img, 2)
      [] processingType = "sharpen" -> Sharpen(img, 2)
      [] OTHER -> <<>>

\* GetImageURL(filename) for the bucket "images"
GetImageURL(filename) ==
    CASE filename = "f1" -> "s3://images/f1"
      [] filename = "f2" -> "s3://images/f2"
      [] filename = "f3" -> "s3://images/f3"
      [] OTHER -> "s3://images/"

\* UploadImage: filename := time.Now().Format("20060102150405") + ".jpg", the
\* clock read in whole seconds; "f1" is the name formatted from second 1
UploadImage(clock) ==
    CASE clock = 1 -> "f1"
      [] clock = 2 -> "f2"
      [] clock = 3 -> "f3"
      [] OTHER -> "f0"

\* the goroutine Start spawns for the delivery m, before processJob runs
NewTask(m) ==
    [pc |-> "decode", Body |-> m.Body, traceID |-> "", url |-> "", processingType |-> "",
     width |-> 0, height |-> 0, format |-> "", filename |-> "", sizeFailed |-> FALSE,
     log |-> <<>>,
     img |-> <<>>, processedImg |-> <<>>, uploaded |-> <<>>]

\* the stage of a task has run, with or without an error
Ran(task, stage, ok) == [task EXCEPT !.log = Append(@, [stage |-> stage, ok |-> ok])]

WorkerIdle ==
    /\ wClosed = FALSE
    /\ delivered = 0
    /\ lpc = "recv"
    /\ lmsg = <<>>
    /\ sem = 0
    /\ wg = 0
    /\ ActiveWorkers = 0
    /\ tasks = <<>>
    /\ resultQueue = <<>>
    /\ rtask = <<>>
    /\ crashed = FALSE
    /\ JobsProcessed = [decode_error |-> 0]
    /\ ImagesProcessed = [success |-> 0, error |-> 0]

\* a queue whose delivered message stays on it, to be delivered again
LeftUnacked(queue) == queue

\* the queue after a delivery: Consume is called with autoAck true, the
\* broker drops the message as it hands it over
AutoAcked(queue) == Tail(queue)

\* a receive that hands over the newest delivery
NewestDelivery(queue) == queue[Len(queue)]

\* for msg := range msgs: the channel hands over the oldest delivery
NextDelivery(queue) == Head(queue)

\* for msg := range msgs: the loop takes the next delivery
StartReceive ==
    /\ ~crashed
    /\ lpc = "recv"
    /\ ~wClosed
    /\ workQueue # <<>>
    /\ lmsg' = <<NextDelivery(workQueue)>>
    /\ workQueue' = AutoAcked(workQueue)
    /\ lpc' = "acquire"
    /\ UNCHANGED <<statusVars, persistVars, now, codecVars, handlerVars, wClosed, delivered, sem, wg, ActiveWorkers,
                   tasks, resultQueue, rtask, crashed, JobsProcessed, ImagesProcessed>>

\* a send that puts two tokens into sem
AcquiredTwice(s) == s + 2

\* sem <- struct{}{}: one more token in the channel
Acquired(s) == s + 1

\* a loop that waits for the task it has started
SpawnedWaitsForTask == "wait"

\* where the loop goes on after the go statement: the next receive
SpawnedPc == "recv"

\* sem <- struct{}{}; wg.Add(1); ActiveWorkers.Inc(); go func(m) {...}(msg)
StartSpawn ==
    /\ ~crashed
    /\ lpc = "acquire"
    /\ CanAcquire(sem)
    /\ sem' = Acquired(sem)
    /\ wg' = wg + 1
    /\ ActiveWorkers' = ActiveWorkers + 1
    /\ tasks' = Append(tasks, NewTask(lmsg[1]))
    /\ lmsg' = <<>>
    /\ lpc' = SpawnedPc
    /\ UNCHANGED <<statusVars, persistVars, now, codecVars, submitVars, wClosed, delivered, resultQueue, rtask,
                   crashed, JobsProcessed, ImagesProcessed>>

\* the channel msgs is closed: the range loop ends and Start waits
StartDrained ==
    /\ ~crashed
    /\ lpc = "recv"
    /\ wClosed
    /\ lpc' = "wait"
    /\ UNCHANGED <<statusVars, persistVars, now, codecVars, submitVars, wClosed, delivered, lmsg, sem, wg,
                   ActiveWorkers, tasks, resultQueue, rtask, crashed, JobsProcessed,
                   ImagesProcessed>>

\* a Wait that returns whatever the counter is
WaitReturnsAlways(counter) == TRUE

\* wg.Wait() returns when the counter of the WaitGroup is zero
WaitReturns(counter) == counter = 0

\* wg.Wait() returns, and Start with it
StartReturn ==
    /\ ~crashed
    /\ lpc = "wait"
    /\ WaitReturns(wg)
    /\ lpc' = "returned"
    /\ UNCHANGED <<statusVars, persistVars, now, codecVars, submitVars, wClosed, delivered, lmsg, sem, wg,
                   ActiveWorkers, tasks, resultQueue, rtask, crashed, JobsProcessed,
                   ImagesProcessed>>

\* a receive from sem that takes no token out
KeptSlot(s) == s

\* <-sem: one token leaves the channel
ReleasedSlot(s) == s - 1

\* message.Decode[models.ImageJob](msg.Body)
DecodeBody(body) ==
    IF body = <<>> THEN [env |-> <<>>, payload |-> <<>>, err |-> TRUE]
    ELSE Decode("ImageJob", body[1])

\* a decode error after which processJob goes on to processImage
DecodeFailedContinues == "download"

\* where a task goes on after a decode error: the return of processJob, so
\* the deferred functions
DecodeFailedPc == "release"

\* processJob taking every job for a job of type original
jobProcessingTypeOriginal(job) == "original"

\* processJob: processingType := job.ProcessingTypes[0]
jobProcessingType(job) == job.ProcessingTypes[1]

\* processJob up to the call of processImage: decode, span attributes, the
\* check of the lists.  job.ProcessingTypes[0] and job.URLs[0] are read for
\* the span attributes before the lengths are checked: on an empty list the
\* goroutine panics, its deferred functions run, and the process dies.
TaskDecode(t) ==
    /\ ~crashed
    /\ t \in DOMAIN tasks
    /\ tasks[t].pc = "decode"
    /\ LET d == DecodeBody(tasks[t].Body) IN
       IF d.err
       THEN /\ JobsProcessed' = [JobsProcessed EXCEPT !.decode_error = @ + 1]
            /\ tasks' = [tasks EXCEPT ![t] = [Ran(@, "decode", FALSE) EXCEPT !.pc = DecodeFailedPc]]
            /\ UNCHANGED <<crashed, sem, wg, ActiveWorkers>>
       ELSE LET job == d.payload[1] IN
            IF Len(job.ProcessingTypes) = 0 \/ Len(job.URLs) = 0
            THEN /\ crashed' = TRUE
                 /\ tasks' = [tasks EXCEPT ![t] = [Ran(@, "decode", TRUE) EXCEPT !.pc = "panic"]]
                 /\ sem' = ReleasedSlot(sem)
                 /\ ActiveWorkers' = ActiveWorkers - 1
                 /\ wg' = wg - 1
                 /\ UNCHANGED JobsProcessed
            ELSE /\ tasks' = [tasks EXCEPT ![t] =
                                [Ran(@, "decode", TRUE) EXCEPT
                                   !.pc = "download",
                                   !.traceID = d.env[1].TraceID,
                                   !.url = job.URLs[1],
                                   !.processingType = jobProcessingType(job)]]
                 /\ UNCHANGED <<crashed, JobsProcessed, sem, wg, ActiveWorkers>>
    /\ UNCHANGED <<statusVars, persistVars, now, codecVars, submitVars, wClosed, delivered,
                   lpc, lmsg, resultQueue, rtask, ImagesProcessed>>

\* an error return that runs no deferred <-sem
ErrorReturnKeepsSlot == "dec"

\* where a task goes on when processJob returns after an error of
\* processImage: the deferred functions, <-sem first
ErrorReturnPc == "release"

\* processJob counting every job as a success
StatusLabelAlwaysSuccess(failed) == "success"

\* processJob: the label of images_processed_total the job is counted under,
\* by the error processImage has returned
StatusLabel(failed) == IF failed THEN "error" ELSE "success"

\* processJob after processImage has returned an error: errorCount++, the
\* metrics, return
ReturnError(t, stage) ==
    /\ tasks' = [tasks EXCEPT ![t] = [Ran(@, stage, FALSE) EXCEPT !.pc = ErrorReturnPc]]
    /\ ImagesProcessed' = [ImagesProcessed EXCEPT ![StatusLabel(TRUE)] = @ + 1]

\* where a task goes on after a failed download, were the error ignored
DownloadFailedContinues == "transform"

\* where a task goes on after a failed download: the deferred functions
DownloadFailedPc == "release"

\* processImage: w.processor.DownloadImage(ctx, url) and the dimensions
TaskDownload(t, r) ==
    /\ ~crashed
    /\ t \in DOMAIN tasks
    /\ tasks[t].pc = "download"
    /\ IF r.err
       THEN /\ tasks' = [tasks EXCEPT ![t] =
                           [Ran(@, "download", FALSE) EXCEPT !.pc = DownloadFailedPc]]
            /\ ImagesProcessed' = [ImagesProcessed EXCEPT !.error = @ + 1]
       ELSE /\ tasks' = [tasks EXCEPT ![t] =
                           [Ran(@, "download", TRUE) EXCEPT
                              !.pc = "transform",
                              !.img = DownloadImage(tasks[t].url),
                              !.width = r.width, !.height = r.height, !.format = r.format]]
            /\ UNCHANGED ImagesProcessed
    /\ UNCHANGED <<statusVars, persistVars, now, codecVars, submitVars, wClosed, delivered, lpc, lmsg, sem, wg,
                   ActiveWorkers, resultQueue, rtask, crashed, JobsProcessed>>

\* a switch after which the result is published at once
TransformedPublishes == "publish"

\* where a task goes on after a case of the switch: the upload
TransformedPc == "upload"

\* processImage: the switch on processingType
TaskTransform(t) ==
    /\ ~crashed
    /\ t \in DOMAIN tasks
    /\ tasks[t].pc = "transform"
    /\ IF tasks[t].processingType \in supportedProcessingTypes
       THEN /\ tasks' = [tasks EXCEPT ![t] =
                           [Ran(@, "transform", TRUE) EXCEPT
                              !.pc = TransformedPc,
                              !.processedImg = processedImg(tasks[t].processingType, tasks[t].img)]]
            /\ UNCHANGED ImagesProcessed
       ELSE ReturnError(t, "transform")
    /\ UNCHANGED <<statusVars, persistVars, now, codecVars, submitVars, wClosed, delivered, lpc, lmsg, sem, wg,
                   ActiveWorkers, resultQueue, rtask, crashed, JobsProcessed>>

\* processImage: w.storage.UploadImageWithType(ctx, processedImg, processingType)
TaskUpload(t, r) ==
    /\ ~crashed
    /\ t \in DOMAIN tasks
    /\ tasks[t].pc = "upload"
    /\ IF r.err
       THEN ReturnError(t, "upload")
       ELSE /\ tasks' = [tasks EXCEPT ![t] =
                           [Ran(@, "upload", TRUE) EXCEPT !.pc = "publish",
                                                          !.uploaded = tasks[t].processedImg,
                                                          !.filename = UploadImage(now)]]
            /\ UNCHANGED ImagesProcessed
    /\ UNCHANGED <<statusVars, persistVars, now, codecVars, submitVars, wClosed, delivered, lpc, lmsg, sem, wg,
                   ActiveWorkers, resultQueue, rtask, crashed, JobsProcessed>>

\* a result payload with a trace id made up by the worker
ResultOfOwnTrace(task, size) ==
    [type |-> "ImageProcessedPayload", SourceURL |-> task.url,
     S3Path |-> GetImageURL(task.filename), Status |-> "success", ErrorMsg |-> "",
     TraceID |-> "image-fetcher-1", Width |-> task.width, Height |-> task.height,
     Format |-> task.format, FileSize |-> IF size.err THEN 0 ELSE size.size,
     ProcessingType |-> task.processingType]

\* the result payload processImage builds; fileSize is 0 when GetFileSize
\* failed
ResultOf(task, size) ==
    [type |-> "ImageProcessedPayload", SourceURL |-> task.url,
     S3Path |-> GetImageURL(task.filename), Status |-> "success", ErrorMsg |-> "",
     TraceID |-> task.traceID, Width |-> task.width, Height |-> task.height,
     Format |-> task.format, FileSize |-> IF size.err THEN 0 ELSE size.size,
     ProcessingType |-> task.processingType]

\* processImage returning the error of GetFileSize
SizeErrorIsReturnedAsIs(size) == size.err

\* processImage: an error of GetFileSize is logged and not returned
SizeErrorIsReturned(size) == FALSE

\* processImage from GetFileSize on: the result payload, Encode, Publish to
\* "image.processed", and the metrics of processJob
TaskPublish(t, size) ==
    /\ ~crashed
    /\ t \in DOMAIN tasks
    /\ tasks[t].pc = "publish"
    /\ LET encoded == Encode(tasks[t].traceID, "image-fetcher", ResultOf(tasks[t], size), now)
       IN IF SizeErrorIsReturned(size) \/ encoded.err \/ wClosed
          THEN /\ tasks' = [tasks EXCEPT ![t] =
                              [Ran(@, "publish", FALSE) EXCEPT !.pc = ErrorReturnPc,
                                                               !.sizeFailed = size.err]]
               /\ ImagesProcessed' = [ImagesProcessed EXCEPT ![StatusLabel(TRUE)] = @ + 1]
               /\ UNCHANGED <<resultQueue, rtask>>
          ELSE /\ resultQueue' = Append(resultQueue, [ContentType |-> "application/json",
                                                      Body |-> encoded.data])
               /\ rtask' = Append(rtask, t)
               /\ tasks' = [tasks EXCEPT ![t] = [Ran(@, "publish", TRUE) EXCEPT !.pc = "release",
                                                                                !.sizeFailed = size.err]]
               /\ ImagesProcessed' = [ImagesProcessed EXCEPT ![StatusLabel(FALSE)] = @ + 1]
    /\ UNCHANGED <<statusVars, persistVars, now, codecVars, submitVars, wClosed, delivered, lpc, lmsg, sem, wg,
                   ActiveWorkers, crashed, JobsProcessed>>

\* the deferred function: <-sem
TaskRelease(t) ==
    /\ ~crashed
    /\ t \in DOMAIN tasks
    /\ tasks[t].pc = "release"
    /\ sem' = ReleasedSlot(sem)
    /\ tasks' = [tasks EXCEPT ![t].pc = "dec"]
    /\ UNCHANGED <<statusVars, persistVars, now, codecVars, submitVars, wClosed, delivered, lpc, lmsg, wg,
                   ActiveWorkers, resultQueue, rtask, crashed, JobsProcessed,
                   ImagesProcessed>>

\* the deferred function: ActiveWorkers.Dec()
TaskGaugeDec(t) ==
    /\ ~crashed
    /\ t \in DOMAIN tasks
    /\ tasks[t].pc = "dec"
    /\ ActiveWorkers' = ActiveWorkers - 1
    /\ tasks' = [tasks EXCEPT ![t].pc = "wgdone"]
    /\ UNCHANGED <<statusVars, persistVars, now, codecVars, submitVars, wClosed, delivered, lpc, lmsg, sem, wg,
                   resultQueue, rtask, crashed, JobsProcessed, ImagesProcessed>>

\* the deferred wg.Done(); the goroutine ends
TaskWgDone(t) ==
    /\ ~crashed
    /\ t \in DOMAIN tasks
    /\ tasks[t].pc = "wgdone"
    /\ wg' = wg - 1
    /\ tasks' = [tasks EXCEPT ![t].pc = "exited"]
    /\ UNCHANGED <<statusVars, persistVars, now, codecVars, submitVars, wClosed, delivered, lpc, lmsg, sem,
                   ActiveWorkers, resultQueue, rtask, crashed, JobsProcessed,
                   ImagesProcessed>>

\* the broker hands the queue "image.urls" one more message
Deliver(m) ==
    /\ workQueue' = Append(workQueue, m)
    /\ delivered' = delivered + 1
    /\ UNCHANGED <<statusVars, persistVars, now, codecVars, handlerVars, wClosed, lpc, lmsg, sem, wg, ActiveWorkers,
                   tasks, resultQueue, rtask, crashed, JobsProcessed, ImagesProcessed>>

\* the broker connection of the worker is lost: msgs is closed and Publish
\* fails from now on
WorkerChannelClose ==
    /\ ~wClosed
    /\ wClosed' = TRUE
    /\ UNCHANGED <<statusVars, persistVars, now, codecVars, submitVars, delivered, lpc, lmsg, sem, wg, ActiveWorkers,
                   tasks, resultQueue, rtask, crashed, JobsProcessed, ImagesProcessed>>

\* ------------------------------------------------------------------------
\* internal/service/metadata: the result persister
\* ------------------------------------------------------------------------
PersisterIdle ==
    /\ pClosed = FALSE
    /\ ppc = "recv"
    /\ pmsg = <<>>
    /\ db = <<>>
    /\ recordsStored = [decode_error |-> 0, error |-> 0, success |-> 0]
    /\ pseen = <<>>
    /\ rarrived = 0

\* a processed-at time taken from the persister's own clock
StoredTimeIsReceipt(env) == now

\* the processed-at time of a record: the timestamp of the envelope
StoredTime(env) == env.Timestamp

\* the record of the first schema, which has no dimensions, format, size or
\* processing type
RecordOfFirstSchema(env, payload) ==
    [SourceURL |-> payload.SourceURL, S3Path |-> payload.S3Path,
     ProcessedAt |-> env.Timestamp, Status |-> payload.Status,
     ErrorMsg |-> payload.ErrorMsg, TraceID |-> payload.TraceID,
     Width |-> 0, Height |-> 0, Format |-> "", FileSize |-> 0, ProcessingType |-> ""]

\* the models.ImageRecord ConsumeAndStore builds from a decoded message; the
\* ID is left to the database
RecordOf(env, payload) ==
    [SourceURL |-> payload.SourceURL, S3Path |-> payload.S3Path,
     ProcessedAt |-> StoredTime(env), Status |-> payload.Status,
     ErrorMsg |-> payload.ErrorMsg, TraceID |-> payload.TraceID,
     Width |-> payload.Width, Height |-> payload.Height, Format |-> payload.Format,
     FileSize |-> payload.FileSize, ProcessingType |-> payload.ProcessingType]

\* message.Decode[models.ImageProcessedPayload](msg.Body)
DecodeResult(body) ==
    IF body = <<>> THEN [env |-> <<>>, payload |-> <<>>, err |-> TRUE]
    ELSE Decode("ImageProcessedPayload", body[1])

\* a loop that ends at the first failed insert
InsertFailedReturns == "returned"

\* where the loop is after a failed insert: at the next message
InsertFailedPc == "recv"

\* an insert that writes the row twice
CreateTwice(table, record) == table \o <<record, record>>

\* m.db.Create(&record) when it succeeds: one more row in the table
Create(table, record) == Append(table, record)

\* a consumer that takes the next message whatever it is doing
LoopTakesAlways(pc) == pc # "returned"

\* the loop of ConsumeAndStore takes a message only at the head of the for
\* statement, that is when the body has run to its end
LoopTakes(pc) == pc = "recv"

\* for msg := range msgs: the next delivery (auto-ack) becomes msg
StoreReceive ==
    /\ LoopTakes(ppc)
    /\ ~pClosed
    /\ resultQueue # <<>>
    /\ resultQueue' = AutoAcked(resultQueue)
    /\ pmsg' = Append(pmsg, Head(resultQueue))
    /\ ppc' = "store"
    /\ UNCHANGED <<statusVars, now, codecVars, submitVars, wClosed, delivered, lpc, lmsg, sem, wg,
                   ActiveWorkers, tasks, rtask, crashed, JobsProcessed, ImagesProcessed,
                   pClosed, db, recordsStored, pseen, rarrived>>

\* a loop that stores an empty record for a message it cannot decode
DecodeFailedStoresZero(table) == Append(table, RecordOf(ZeroEnvelope, ZeroImageProcessedPayload))

\* the table after a message that did not decode: the loop continues with
\* the next message, nothing is inserted
DecodeFailedTable(table) == table

\* the body of the loop of ConsumeAndStore for msg: the decode, the record,
\* the insert, which fails when created is FALSE
StoreMessage(created) ==
    /\ ppc = "store"
    /\ pmsg # <<>>
    /\ pmsg' = Tail(pmsg)
    /\ LET msg == Head(pmsg)
           d == DecodeResult(msg.Body)
       IN IF d.err
          THEN /\ recordsStored' = [recordsStored EXCEPT !.decode_error = @ + 1]
               /\ pseen' = Append(pseen, [Body |-> msg.Body, outcome |-> "decode_error", at |-> now])
               /\ ppc' = "recv"
               /\ db' = DecodeFailedTable(db)
          ELSE IF created
          THEN /\ db' = Create(db, RecordOf(d.env[1], d.payload[1]))
               /\ recordsStored' = [recordsStored EXCEPT !.success = @ + 1]
               /\ pseen' = Append(pseen, [Body |-> msg.Body, outcome |-> "success", at |-> now])
               /\ ppc' = "recv"
          ELSE /\ recordsStored' = [recordsStored EXCEPT !.error = @ + 1]
               /\ pseen' = Append(pseen, [Body |-> msg.Body, outcome |-> "error", at |-> now])
               /\ ppc' = InsertFailedPc
               /\ UNCHANGED db
    /\ UNCHANGED <<statusVars, now, codecVars, submitVars, workerVars, pClosed, rarrived>>

\* the channel msgs of the persister is closed: the range loop ends and
\* ConsumeAndStore returns
StoreDrained ==
    /\ ppc = "recv"
    /\ pClosed
    /\ ppc' = "returned"
    /\ UNCHANGED <<statusVars, now, codecVars, submitVars, workerVars, pClosed, pmsg, db,
                   recordsStored, pseen, rarrived>>

\* the broker connection of the persister is lost
PersisterChannelClose ==
    /\ ~pClosed
    /\ pClosed' = TRUE
    /\ UNCHANGED <<statusVars, now, codecVars, submitVars, workerVars, ppc, pmsg, db,
                   recordsStored, pseen, rarrived>>

\* the broker hands the queue "image.processed" one more message
DeliverResult(m) ==
    /\ resultQueue' = Append(resultQueue, m)
    /\ rarrived' = rarrived + 1
    /\ UNCHANGED <<statusVars, now, codecVars, submitVars, wClosed, delivered, lpc, lmsg, sem, wg,
                   ActiveWorkers, tasks, rtask, crashed, JobsProcessed, ImagesProcessed,
                   pClosed, ppc, pmsg, db, recordsStored, pseen>>

\* ------------------------------------------------------------------------
\* internal/handler: GET /status and GET /queue/status
\* ------------------------------------------------------------------------
StatusIdle ==
    /\ chAbsent = FALSE
    /\ statusLog = <<>>

\* a check that takes the channel to be usable whatever its state
ChannelAlwaysUp(absent, closed) == FALSE

\* ch == nil || ch.IsClosed()
ChannelDown(absent, closed) == absent \/ closed

\* the response of GET /status
GetStatus(absent, closed, clock) ==
    [code |-> 200, body |-> "json", service |-> "url-ingestor", status |-> "running",
     rabbitmq |-> IF ChannelDown(absent, closed) THEN "unhealthy" ELSE "healthy",
     queue_name |-> "", timestamp |-> clock]

\* the response of GET /queue/status
GetQueueStatus(absent, closed, clock) ==
    IF ChannelDown(absent, closed)
    THEN [code |-> 503, body |-> "text", service |-> "", status |-> "", rabbitmq |-> "",
          queue_name |-> "", timestamp |-> ZeroTime]
    ELSE [code |-> 200, body |-> "json", service |-> "", status |-> "", rabbitmq |-> "",
          queue_name |-> "image.urls", timestamp |-> clock]

\* a client calls GET /status
StatusRequest ==
    /\ Len(statusLog) < MaxRequests
    /\ statusLog' = Append(statusLog, [path |-> "/status", absent |-> chAbsent,
                                       closed |-> chClosed,
                                       resp |-> GetStatus(chAbsent, chClosed, now)])
    /\ UNCHANGED <<now, codecVars, submitVars, workerVars, persistVars, chAbsent>>

\* a client calls GET /queue/status
QueueStatusRequest ==
    /\ Len(statusLog) < MaxRequests
    /\ statusLog' = Append(statusLog, [path |-> "/queue/status", absent |-> chAbsent,
                                       closed |-> chClosed,
                                       resp |-> GetQueueStatus(chAbsent, chClosed, now)])
    /\ UNCHANGED <<now, codecVars, submitVars, workerVars, persistVars, chAbsent>>

\* ------------------------------------------------------------------------
\* The wall clock
\* ------------------------------------------------------------------------
Tick ==
    /\ now < MaxClock
    /\ now' = now + 1

\* ------------------------------------------------------------------------
\* Codec harness: Encode and Decode applied to inputs drawn from small sets
\* ------------------------------------------------------------------------
TraceIDs == {"", "t1", "bad-xFF"}

Sources == {"url-ingestor", "image-fetcher"}

CodecJobs ==
    {ZeroImageJob,
     ImageJobOf(<<"u1">>, <<"original">>),
     ImageJobOf(<<"u1", "u2">>, <<"grayscale", "blur">>),
     ImageJobOf(<<"bad-xFF">>, <<"grayscale">>)}

CodecResults ==
    {ZeroImageProcessedPayload,
     [ZeroImageProcessedPayload EXCEPT !.SourceURL = "u1", !.S3Path = "s3://images/f1",
         !.Status = "success", !.TraceID = "t1", !.Width = 2, !.Height = 1,
         !.Format = "jpeg", !.FileSize = 3, !.ProcessingType = "blur"],
     [ZeroImageProcessedPayload EXCEPT !.SourceURL = "u2", !.Status = "error",
         !.ErrorMsg = "boom", !.TraceID = "bad-xFF"]}

\* a value json.Marshal rejects, for the payload parameter of type any
Unserializable == [type |-> "chan"]

CodecPayloads == CodecJobs \cup CodecResults \cup {Unserializable}

PayloadTypes == {"ImageJob", "ImageProcessedPayload"}

\* bytes a consumer may receive that no Encode produced
ForeignData ==
    {JInvalid, JNull, JString("x"), JArray(<<>>), JObject(<<>>),
     JObject([trace_id |-> JNumber(7), payload |-> JNull]),
     JObject([trace_id |-> JString("t1"), source |-> JString("other"),
              timestamp |-> JString("yesterday"), payload |-> JObject(<<>>)]),
     JObject([trace_id |-> JString("t1"), source |-> JString("other")]),
     JObject([trace_id |-> JString("t1"), source |-> JString("other"),
              timestamp |-> JTime(1), payload |-> JNull]),
     JObject([trace_id |-> JString("bad-xFF"), source |-> JString("other"),
              timestamp |-> JTime(1), payload |-> JString("x")]),
     JObject([trace_id |-> JString("t1"), source |-> JString("other"),
              timestamp |-> JTime(1), payload |-> JNumber(3)]),
     JObject([trace_id |-> JString("t1"), source |-> JString("other"),
              timestamp |-> JTime(1),
              payload |-> JObject([urls |-> JString("u1")])]),
     JObject([trace_id |-> JString("t1"), source |-> JString("other"),
              timestamp |-> JTime(1),
              payload |-> JObject([urls |-> JArray(<<"u1">>)])]),
     JObject([trace_id |-> JString("t1"), source |-> JString("other"),
              timestamp |-> JTime(1),
              payload |-> JObject([source_url |-> JString("u1"), width |-> JString("wide")])])}

NoDecode == [env |-> <<>>, payload |-> <<>>, err |-> FALSE]

CodecInit ==
    /\ now = 1
    /\ cpc = "idle"
    /\ cargs = [traceID |-> "", source |-> "", payload |-> ZeroImageJob]
    /\ cenc = [err |-> FALSE, data |-> <<>>]
    /\ cdata = <<>>
    /\ cdec = NoDecode
    /\ SubmitIdle
    /\ WorkerIdle
    /\ PersisterIdle
    /\ StatusIdle

\* a producer calls Encode
CodecEncode(traceID, source, payload) ==
    /\ cpc = "idle"
    /\ cargs' = [traceID |-> traceID, source |-> source, payload |-> payload]
    /\ cenc' = Encode(traceID, source, payload, now)
    /\ cpc' = "encoded"
    /\ UNCHANGED <<statusVars, now, cdata, cdec, submitVars, workerVars, persistVars>>

\* a consumer calls Decode[T] on what Encode returned, T the payload's type
CodecDecode ==
    /\ cpc = "encoded"
    /\ ~cenc.err
    /\ cdata' = cenc.data
    /\ cdec' = Decode(cargs.payload.type, cenc.data[1])
    /\ cpc' = "decoded"
    /\ UNCHANGED <<statusVars, now, cargs, cenc, submitVars, workerVars, persistVars>>

\* a consumer calls Decode[T] on bytes that some other producer sent
CodecDecodeForeign(T, data) ==
    /\ cpc = "idle"
    /\ cdata' = <<data>>
    /\ cdec' = Decode(T, data)
    /\ cpc' = "received"
    /\ UNCHANGED <<statusVars, now, cargs, cenc, submitVars, workerVars, persistVars>>

CodecTick == Tick /\ UNCHANGED <<statusVars, codecVars, submitVars, workerVars, persistVars>>

CodecNext ==
    \/ \E t \in TraceIDs, s \in Sources, p \in CodecPayloads : CodecEncode(t, s, p)
    \/ CodecDecode
    \/ \E T \in PayloadTypes, d \in ForeignData : CodecDecodeForeign(T, d)
    \/ CodecTick

SpecCodec == CodecInit /\ [][CodecNext]_vars

\* ------------------------------------------------------------------------
\* Properties of the codec
\* ------------------------------------------------------------------------
\* the strings a payload carries
StringsOf(payload) ==
    CASE payload.type = "ImageJob" ->
           {payload.URLs[i] : i \in DOMAIN payload.URLs}
             \cup {payload.ProcessingTypes[i] : i \in DOMAIN payload.ProcessingTypes}
      [] payload.type = "ImageProcessedPayload" ->
           {payload.SourceURL, payload.S3Path, payload.Status, payload.ErrorMsg,
            payload.TraceID, payload.Format, payload.ProcessingType}
      [] OTHER -> {}

RoundTripExact ==
    /\ ~cdec.err
    /\ cdec.env # <<>>
    /\ cdec.env[1].TraceID = cargs.traceID
    /\ cdec.env[1].Source = cargs.source
    /\ cdec.payload = <<cargs.payload>>

WrapperString(data, name) ==
    IF data.kind = "object" THEN UnmarshalString(Member(data, name)).v ELSE ""

\* C10: Decode is two-stage.  When the outer wrapper does not deserialize, it
\* returns an error with no envelope and no payload; when only the inner
\* payload does not deserialize, it returns an error, the envelope (with the
\* wrapper's trace_id and source) and no payload; with no error both are
\* present.
C10_DecodeTwoStage ==
    cpc \in {"decoded", "received"} =>
        LET outer == UnmarshalEnvelope(cdata[1])
        IN /\ outer.err => (cdec.err /\ cdec.env = <<>> /\ cdec.payload = <<>>)
           /\ (~outer.err /\ cdec.err) =>
                 /\ cdec.payload = <<>>
                 /\ cdec.env # <<>>
                 /\ cdec.env[1].TraceID = WrapperString(cdata[1], "trace_id")
                 /\ cdec.env[1].Source = WrapperString(cdata[1], "source")
           /\ ~cdec.err => (~outer.err /\ cdec.env # <<>> /\ cdec.payload # <<>>)
           /\ (cdec.env = <<>>) = outer.err
           /\ (cdec.payload = <<>>) = cdec.err

C10_Witness ==
    /\ cpc = "received"
    /\ cdec.err
    /\ cdec.payload = <<>>
    /\ cdec.env # <<>>
    /\ cdec.env[1].TraceID = "t1"
    /\ cdec.env[1].Source = "other"

\* ------------------------------------------------------------------------
\* The url-ingestor serving one POST /submit
\* ------------------------------------------------------------------------
UrlNames == {"u1", "u2"}

TypeNames == {"original", "grayscale", "blur", "bogus"}

SeqsUpTo(S, n) == UNION {[1..k -> S] : k \in 0..n}

\* request bodies: empty, not JSON, null, a member of the wrong type, and
\* the submissions over UrlNames and TypeNames
SubmitBodies ==
    {<<>>, <<JInvalid>>, <<JNull>>, <<JObject([urls |-> JString("u1")])>>}
      \cup {<<JObject([urls |-> MarshalStrings(u), processing_types |-> MarshalStrings(t)])>> :
              u \in SeqsUpTo(UrlNames, MaxUrls), t \in SeqsUpTo(TypeNames, MaxTypes)}

SubmitInit == CodecInit

SubmitNext ==
    \/ \E b \in SubmitBodies, t \in TraceIDs : SubmitRequest(b, t)
    \/ FanoutPublish
    \/ FanoutSkip
    \/ SubmitAccepted
    \/ ChannelClose

SpecSubmit == SubmitInit /\ [][SubmitNext]_vars

\* ------------------------------------------------------------------------
\* Properties of POST /submit
\* ------------------------------------------------------------------------
Range(f) == {f[i] : i \in DOMAIN f}

\* the job a published message carries, read back through the codec
JobOf(m) == Decode("ImageJob", m.Body[1]).payload[1]

\* <<url, processing_type>> of a published message
PairOf(m) == <<JobOf(m).URLs[1], JobOf(m).ProcessingTypes[1]>>

Published == [i \in DOMAIN hpub |-> PairOf(hpub[i])]

IsNotOriginal(t) == t # "original"

NonOriginal(types) == SelectSeq(types, IsNotOriginal)

IsNotAllowed(t) == t \notin {"original", "grayscale", "resize", "blur", "sharpen"}

\* the jobs of one url: original, then the entries other than original
GroupOf(url, types) ==
    <<<<url, "original">>>> \o [i \in DOMAIN NonOriginal(types) |-> <<url, NonOriginal(types)[i]>>]

RECURSIVE FanoutOf(_, _)
FanoutOf(urls, types) ==
    IF urls = <<>> THEN <<>> ELSE GroupOf(Head(urls), types) \o FanoutOf(Tail(urls), types)

IsPrefix(a, b) == Len(a) <= Len(b) /\ a = SubSeq(b, 1, Len(a))

Accepted == hpc = "done" /\ hresp.code = 202

C2_InvalidTypeRejects ==
    (/\ hpc # "idle"
     /\ ~UnmarshalPayload("ImageJob", hbody).err
     /\ \E i \in DOMAIN hjob.ProcessingTypes : IsNotAllowed(hjob.ProcessingTypes[i]))
        => /\ hpc = "done"
           /\ hresp.code = 400
           /\ hresp.invalid_types = SelectSeq(hjob.ProcessingTypes, IsNotAllowed)
           /\ Range(hresp.allowed_types) = {"original", "grayscale", "resize", "blur", "sharpen"}
           /\ Len(hresp.allowed_types) = 5
           /\ hattempts = 0
           /\ hpub = <<>>
           /\ workQueue = <<>>

C2_Witness ==
    /\ hpc = "done"
    /\ hjob.ProcessingTypes = <<"bogus", "grayscale">>
    /\ Len(hjob.URLs) = 2
    /\ hresp.invalid_types = <<"bogus">>
    /\ workQueue = <<>>

\* the jobs of the url at index u, when every url has g jobs
GroupAt(u, g) == SubSeq(Published, (u - 1) * g + 1, u * g)

C8_PublishFailure ==
    /\ hattempts <= Len(hpub) + 1
    /\ hattempts = Len(hpub) + 1 =>
         /\ hpc = "done"
         /\ hresp.code = 500
    /\ workQueue = hpub
    /\ hresp.code = 500 => hattempts = Len(hpub) + 1

C8_Witness ==
    /\ hpc = "done"
    /\ hresp.code = 500
    /\ hattempts = 3
    /\ Len(workQueue) = 2

\* C9: the answer is 202 exactly when the body parsed, every processing
\* type was allowed (an absent or empty list included) and every publish of
\* the fanout succeeded; no 202 is written before the last job is published.
C9_AcceptedIffFullFanout ==
    /\ hpc # "done" => hresp.code = 0
    /\ hpc = "done" =>
         (hresp.code = 202) =
            (/\ ~UnmarshalPayload("ImageJob", hbody).err
             /\ \A i \in DOMAIN hjob.ProcessingTypes : ~IsNotAllowed(hjob.ProcessingTypes[i])
             /\ hattempts = Len(hpub)
             /\ Published = FanoutOf(hjob.URLs, hjob.ProcessingTypes))

C9_Witness ==
    /\ Accepted
    /\ hjob.ProcessingTypes = <<>>
    /\ Len(hjob.URLs) = 2
    /\ Len(workQueue) = 2

\* ------------------------------------------------------------------------
\* Worker specifications: the pool fed with messages drawn from small sets
\* ------------------------------------------------------------------------
\* the message publishJob puts on the queue for one url and one type
JobMessage(trace, url, processingType) ==
    publishJob(FALSE, <<>>, trace, url, processingType, 1).queue[1]

\* a message some other producer put on the queue
ForeignMessage(body) == [ContentType |-> "application/json", Body |-> body]

\* messages of the worker specification: two jobs of the url-ingestor, a job
\* with a type the switch does not know, a job with empty lists, bytes that
\* are not JSON
WorkerMessages ==
    {JobMessage("t1", "u1", "original"),
     JobMessage("bad-xFF", "u2", "blur"),
     ForeignMessage(Encode("t1", "other", ImageJobOf(<<"u1">>, <<"bogus">>), 1).data),
     ForeignMessage(Encode("t1", "other", ZeroImageJob, 1).data),
     ForeignMessage(<<JInvalid>>)}

\* results of DownloadImage: an error, or an image of 2 by 1 pixels
DownloadOutcomes ==
    {[err |-> TRUE, width |-> 0, height |-> 0, format |-> ""],
     [err |-> FALSE, width |-> 2, height |-> 1, format |-> "jpeg"]}

\* results of UploadImageWithType: an error, or the object is stored
UploadOutcomes == {[err |-> TRUE], [err |-> FALSE]}

\* results of GetFileSize: an error, or the size
SizeOutcomes == {[err |-> TRUE, size |-> 0], [err |-> FALSE, size |-> 3]}

WorkerInit == CodecInit

\* another producer's message arrives on "image.urls"
WorkerArrives(m) ==
    /\ delivered < MaxDeliveries
    /\ Deliver(m)

\* the steps of the consume loop of Start
StartStep == StartReceive \/ StartSpawn \/ StartDrained \/ StartReturn

\* the steps of the goroutine of task t
TaskStep(t) ==
    \/ TaskDecode(t)
    \/ \E r \in DownloadOutcomes : TaskDownload(t, r)
    \/ TaskTransform(t)
    \/ \E r \in UploadOutcomes : TaskUpload(t, r)
    \/ \E r \in SizeOutcomes : TaskPublish(t, r)
    \/ TaskRelease(t)
    \/ TaskGaugeDec(t)
    \/ TaskWgDone(t)

WorkerNext ==
    \/ \E m \in WorkerMessages : WorkerArrives(m)
    \/ WorkerChannelClose
    \/ StartReceive
    \/ StartSpawn
    \/ StartDrained
    \/ StartReturn
    \/ \E t \in 1..MaxDeliveries : TaskDecode(t)
    \/ \E t \in 1..MaxDeliveries, r \in DownloadOutcomes : TaskDownload(t, r)
    \/ \E t \in 1..MaxDeliveries : TaskTransform(t)
    \/ \E t \in 1..MaxDeliveries, r \in UploadOutcomes : TaskUpload(t, r)
    \/ \E t \in 1..MaxDeliveries, r \in SizeOutcomes : TaskPublish(t, r)
    \/ \E t \in 1..MaxDeliveries : TaskRelease(t)
    \/ \E t \in 1..MaxDeliveries : TaskGaugeDec(t)
    \/ \E t \in 1..MaxDeliveries : TaskWgDone(t)

SpecWorker == WorkerInit /\ [][WorkerNext]_vars

\* The Go scheduler runs every goroutine that can run, and every stage of a
\* task returns (the download has a client timeout of 30 s): the loop of
\* Start and each task keep taking steps.
SpecWorkerFair ==
    /\ SpecWorker
    /\ WF_vars(StartStep)
    /\ \A t \in 1..MaxDeliveries : WF_vars(TaskStep(t))

\* ------------------------------------------------------------------------
\* Pool specification: more deliveries than slots.  Every message is a job
\* of the url-ingestor and every download fails, so that a task holds its
\* slot from the decode to the end of the download.
\* ------------------------------------------------------------------------
PoolMessages == {JobMessage("t1", "u1", "original")}

PoolDownloads == {[err |-> TRUE, width |-> 0, height |-> 0, format |-> ""]}

PoolInit == CodecInit

PoolArrives(m) ==
    /\ delivered < PoolDeliveries
    /\ Deliver(m)

PoolNext ==
    \/ \E m \in PoolMessages : PoolArrives(m)
    \/ StartReceive
    \/ StartSpawn
    \/ \E t \in 1..PoolDeliveries : TaskDecode(t)
    \/ \E t \in 1..PoolDeliveries, r \in PoolDownloads : TaskDownload(t, r)
    \/ \E t \in 1..PoolDeliveries : TaskRelease(t)
    \/ \E t \in 1..PoolDeliveries : TaskGaugeDec(t)
    \/ \E t \in 1..PoolDeliveries : TaskWgDone(t)

SpecPool == PoolInit /\ [][PoolNext]_vars

\* the worker starts on a queue that holds PoolDeliveries messages already,
\* none of which can be decoded, so that a task holds its slot from its start
\* to the return of processJob after the decode
PoolBacklogInit ==
    /\ now = 1
    /\ cpc = "idle"
    /\ cargs = [traceID |-> "", source |-> "", payload |-> ZeroImageJob]
    /\ cenc = [err |-> FALSE, data |-> <<>>]
    /\ cdata = <<>>
    /\ cdec = NoDecode
    /\ chClosed = FALSE
    /\ workQueue = [i \in 1..PoolDeliveries |-> ForeignMessage(<<JInvalid>>)]
    /\ hpc = "idle" /\ hbody = <<>> /\ hjob = ZeroImageJob /\ hTraceID = ""
    /\ hi = 0 /\ hk = 0 /\ totalJobs = 0 /\ hresp = NoResponse /\ hpub = <<>>
    /\ hattempts = 0 /\ imagesSubmitted = 0
    /\ wClosed = FALSE /\ delivered = PoolDeliveries /\ lpc = "recv" /\ lmsg = <<>>
    /\ sem = 0 /\ wg = 0 /\ ActiveWorkers = 0 /\ tasks = <<>>
    /\ resultQueue = <<>> /\ rtask = <<>> /\ crashed = FALSE
    /\ JobsProcessed = [decode_error |-> 0]
    /\ ImagesProcessed = [success |-> 0, error |-> 0]
    /\ PersisterIdle
    /\ StatusIdle

\* the steps of the worker on that queue
PoolBacklogNext ==
    \/ StartReceive
    \/ StartSpawn
    \/ \E t \in 1..PoolDeliveries : TaskDecode(t)
    \/ \E t \in 1..PoolDeliveries : TaskRelease(t)
    \/ \E t \in 1..PoolDeliveries : TaskGaugeDec(t)
    \/ \E t \in 1..PoolDeliveries : TaskWgDone(t)

\* Fair scheduling of the goroutines of the worker: as long as the loop or a
\* task can take a step, one of them does.  Every task takes a bounded number
\* of steps, so every in-flight task terminates.
SpecPoolFair == PoolBacklogInit /\ [][PoolBacklogNext]_vars /\ WF_vars(PoolBacklogNext)

\* ------------------------------------------------------------------------
\* Worker specification for messages that are no job of one url and one type
\* ------------------------------------------------------------------------
\* messages of another producer: a job with two urls, a job with two types,
\* a job with empty lists, bytes that are not JSON, an envelope whose payload
\* is no job; and a job of the url-ingestor
MalformedMessages ==
    {ForeignMessage(Encode("t1", "other", ImageJobOf(<<"u1", "u2">>, <<"blur">>), 1).data),
     ForeignMessage(Encode("t1", "other", ImageJobOf(<<"u1">>, <<"blur", "resize">>), 1).data),
     ForeignMessage(Encode("t1", "other", ZeroImageJob, 1).data),
     ForeignMessage(<<JInvalid>>),
     ForeignMessage(<<JObject([trace_id |-> JString("t1"), source |-> JString("other"),
                               timestamp |-> JTime(1),
                               payload |-> JObject([urls |-> JString("u1")])])>>),
     JobMessage("t1", "u1", "original")}

MalformedInit == CodecInit

MalformedNext ==
    \/ \E m \in MalformedMessages : WorkerArrives(m)
    \/ WorkerChannelClose
    \/ StartReceive
    \/ StartSpawn
    \/ StartDrained
    \/ StartReturn
    \/ \E t \in 1..MaxDeliveries : TaskDecode(t)
    \/ \E t \in 1..MaxDeliveries, r \in DownloadOutcomes : TaskDownload(t, r)
    \/ \E t \in 1..MaxDeliveries : TaskTransform(t)
    \/ \E t \in 1..MaxDeliveries, r \in UploadOutcomes : TaskUpload(t, r)
    \/ \E t \in 1..MaxDeliveries, r \in SizeOutcomes : TaskPublish(t, r)
    \/ \E t \in 1..MaxDeliveries : TaskRelease(t)
    \/ \E t \in 1..MaxDeliveries : TaskGaugeDec(t)
    \/ \E t \in 1..MaxDeliveries : TaskWgDone(t)

SpecMalformed == MalformedInit /\ [][MalformedNext]_vars

\* ------------------------------------------------------------------------
\* Persister specification: the loop fed with messages drawn from a small set
\* ------------------------------------------------------------------------
\* a result payload as processImage builds it
ResultPayload(trace, url, processingType) ==
    ResultOf([NewTask(ForeignMessage(<<>>)) EXCEPT
                 !.traceID = trace, !.url = url, !.processingType = processingType,
                 !.width = 2, !.height = 1, !.format = "jpeg", !.filename = "f1"],
             [err |-> FALSE, size |-> 3])

\* bodies of the persister specification, encoded at time clock: two results
\* of the image-fetcher, a result with status error of another producer, an
\* envelope without a payload, a payload of the wrong shape, bytes that are
\* not JSON
PersistBodies(clock) ==
    <<Encode("t1", "image-fetcher", ResultPayload("t1", "u1", "original"), clock).data,
     Encode("bad-xFF", "image-fetcher", ResultPayload("bad-xFF", "u2", "blur"), clock).data,
     Encode("t1", "other", [ResultPayload("t2", "u1", "blur") EXCEPT
                               !.Status = "error", !.ErrorMsg = "boom"], clock).data,
     <<JObject([trace_id |-> JString("t1"), source |-> JString("other"),
                timestamp |-> JTime(clock)])>>,
     <<JObject([trace_id |-> JString("t1"), source |-> JString("other"),
                timestamp |-> JTime(clock),
                payload |-> JObject([source_url |-> JString("u1"),
                                     width |-> JString("wide")])])>>,
     <<JInvalid>> >>

PersistInit == CodecInit

\* another producer's message arrives on "image.processed": body k of
\* PersistBodies, encoded now
ResultArrives(k) ==
    /\ rarrived < MaxResults
    /\ DeliverResult(ForeignMessage(PersistBodies(now)[k]))

PersistTick == Tick /\ UNCHANGED <<statusVars, codecVars, submitVars, workerVars, persistVars>>

PersistNext ==
    \/ \E k \in 1..6 : ResultArrives(k)
    \/ StoreReceive
    \/ \E created \in BOOLEAN : StoreMessage(created)
    \/ StoreDrained
    \/ PersisterChannelClose
    \/ PersistTick

SpecPersist == PersistInit /\ [][PersistNext]_vars

\* ------------------------------------------------------------------------
\* Pipeline specifications: one submission through the url-ingestor, the
\* worker pool and the result persister
\* ------------------------------------------------------------------------
\* submissions of one url: no type, one type, an explicit original
PipelineBodies ==
    {<<JObject([urls |-> MarshalStrings(<<"u1">>), processing_types |-> MarshalStrings(t)])>> :
        t \in {<<>>, <<"blur">>, <<"original">>}}

PipelineInit == CodecInit

PipelineTick == Tick /\ UNCHANGED <<statusVars, codecVars, submitVars, workerVars, persistVars>>

PipelineNext ==
    \/ \E b \in PipelineBodies, t \in TraceIDs : SubmitRequest(b, t)
    \/ FanoutPublish
    \/ FanoutSkip
    \/ SubmitAccepted
    \/ WorkerChannelClose
    \/ StartReceive
    \/ StartSpawn
    \/ \E t \in 1..MaxDeliveries : TaskDecode(t)
    \/ \E t \in 1..MaxDeliveries, r \in DownloadOutcomes : TaskDownload(t, r)
    \/ \E t \in 1..MaxDeliveries : TaskTransform(t)
    \/ \E t \in 1..MaxDeliveries, r \in UploadOutcomes : TaskUpload(t, r)
    \/ \E t \in 1..MaxDeliveries, r \in SizeOutcomes : TaskPublish(t, r)
    \/ \E t \in 1..MaxDeliveries : TaskRelease(t)
    \/ \E t \in 1..MaxDeliveries : TaskGaugeDec(t)
    \/ \E t \in 1..MaxDeliveries : TaskWgDone(t)
    \/ StoreReceive
    \/ \E created \in BOOLEAN : StoreMessage(created)
    \/ PipelineTick

SpecPipeline == PipelineInit /\ [][PipelineNext]_vars

\* ------------------------------------------------------------------------
\* Order specification: the worker starts on a queue of PoolDeliveries jobs
\* that differ in url or type, and every download fails
\* ------------------------------------------------------------------------
OrderTypes == <<"original", "blur", "grayscale", "sharpen">>

OrderBacklog ==
    [i \in 1..PoolDeliveries |->
        JobMessage("t1", IF i % 2 = 1 THEN "u1" ELSE "u2", OrderTypes[((i - 1) \div 2) + 1])]

OrderInit ==
    /\ now = 1
    /\ cpc = "idle"
    /\ cargs = [traceID |-> "", source |-> "", payload |-> ZeroImageJob]
    /\ cenc = [err |-> FALSE, data |-> <<>>]
    /\ cdata = <<>>
    /\ cdec = NoDecode
    /\ chClosed = FALSE
    /\ workQueue = OrderBacklog
    /\ hpc = "idle" /\ hbody = <<>> /\ hjob = ZeroImageJob /\ hTraceID = ""
    /\ hi = 0 /\ hk = 0 /\ totalJobs = 0 /\ hresp = NoResponse /\ hpub = <<>>
    /\ hattempts = 0 /\ imagesSubmitted = 0
    /\ wClosed = FALSE /\ delivered = PoolDeliveries /\ lpc = "recv" /\ lmsg = <<>>
    /\ sem = 0 /\ wg = 0 /\ ActiveWorkers = 0 /\ tasks = <<>>
    /\ resultQueue = <<>> /\ rtask = <<>> /\ crashed = FALSE
    /\ JobsProcessed = [decode_error |-> 0]
    /\ ImagesProcessed = [success |-> 0, error |-> 0]
    /\ PersisterIdle
    /\ StatusIdle

OrderNext ==
    \/ StartReceive
    \/ StartSpawn
    \/ \E t \in 1..PoolDeliveries : TaskDecode(t)
    \/ \E t \in 1..PoolDeliveries, r \in PoolDownloads : TaskDownload(t, r)
    \/ \E t \in 1..PoolDeliveries : TaskRelease(t)
    \/ \E t \in 1..PoolDeliveries : TaskGaugeDec(t)
    \/ \E t \in 1..PoolDeliveries : TaskWgDone(t)

SpecOrder == OrderInit /\ [][OrderNext]_vars

\* ------------------------------------------------------------------------
\* Naming specification: the pool fed with jobs of two urls and one type
\* while the clock advances
\* ------------------------------------------------------------------------
NamingMessages == {JobMessage("t1", "u1", "blur"), JobMessage("t1", "u2", "blur")}

NamingInit == CodecInit

NamingTick == Tick /\ UNCHANGED <<statusVars, codecVars, submitVars, workerVars, persistVars>>

NamingNext ==
    \/ \E m \in NamingMessages : WorkerArrives(m)
    \/ StartReceive
    \/ StartSpawn
    \/ \E t \in 1..MaxDeliveries : TaskDecode(t)
    \/ \E t \in 1..MaxDeliveries, r \in DownloadOutcomes : TaskDownload(t, r)
    \/ \E t \in 1..MaxDeliveries : TaskTransform(t)
    \/ \E t \in 1..MaxDeliveries, r \in UploadOutcomes : TaskUpload(t, r)
    \/ \E t \in 1..MaxDeliveries, r \in SizeOutcomes : TaskPublish(t, r)
    \/ \E t \in 1..MaxDeliveries : TaskRelease(t)
    \/ \E t \in 1..MaxDeliveries : TaskGaugeDec(t)
    \/ \E t \in 1..MaxDeliveries : TaskWgDone(t)
    \/ NamingTick

SpecNaming == NamingInit /\ [][NamingNext]_vars

\* the results of DownloadImage, UploadImageWithType and db.Create when no
\* step fails
DownloadSucceeds == {r \in DownloadOutcomes : ~r.err}

UploadSucceeds == {r \in UploadOutcomes : ~r.err}

\* the steps POST /submit takes once the request is read
FlowSubmitStep == FanoutPublish \/ FanoutSkip \/ SubmitAccepted

\* the steps of the goroutine of task t when no step fails
FlowTaskStep(t) ==
    \/ TaskDecode(t)
    \/ \E r \in DownloadSucceeds : TaskDownload(t, r)
    \/ TaskTransform(t)
    \/ \E r \in UploadSucceeds : TaskUpload(t, r)
    \/ \E r \in SizeOutcomes : TaskPublish(t, r)
    \/ TaskRelease(t)
    \/ TaskGaugeDec(t)
    \/ TaskWgDone(t)

FlowInit == CodecInit

\* the pipeline when no download, upload, publish or insert fails and no
\* channel is lost
FlowNext ==
    \/ \E b \in PipelineBodies, t \in TraceIDs : SubmitRequest(b, t)
    \/ FanoutPublish
    \/ FanoutSkip
    \/ SubmitAccepted
    \/ StartReceive
    \/ StartSpawn
    \/ \E t \in 1..MaxDeliveries : TaskDecode(t)
    \/ \E t \in 1..MaxDeliveries, r \in DownloadSucceeds : TaskDownload(t, r)
    \/ \E t \in 1..MaxDeliveries : TaskTransform(t)
    \/ \E t \in 1..MaxDeliveries, r \in UploadSucceeds : TaskUpload(t, r)
    \/ \E t \in 1..MaxDeliveries, r \in SizeOutcomes : TaskPublish(t, r)
    \/ \E t \in 1..MaxDeliveries : TaskRelease(t)
    \/ \E t \in 1..MaxDeliveries : TaskGaugeDec(t)
    \/ \E t \in 1..MaxDeliveries : TaskWgDone(t)
    \/ StoreReceive
    \/ StoreMessage(TRUE)

\* the steps of the three services, all but the arrival of the request
FlowStep ==
    \/ FlowSubmitStep
    \/ StartReceive
    \/ StartSpawn
    \/ \E t \in 1..MaxDeliveries : FlowTaskStep(t)
    \/ StoreReceive
    \/ StoreMessage(TRUE)

\* Fair scheduling: as long as some goroutine of the three services can take
\* a step, one of them does.  Each goroutine takes a bounded number of steps
\* for one submission, so none is left behind for ever.
SpecFlow ==
    /\ FlowInit
    /\ [][FlowNext]_vars
    /\ WF_vars(FlowStep)

\* ------------------------------------------------------------------------
\* Status specification: the two endpoints called while the channel and the
\* clock change; the router is built with a channel or with none
\* ------------------------------------------------------------------------
StatusInit ==
    /\ now = 1
    /\ cpc = "idle"
    /\ cargs = [traceID |-> "", source |-> "", payload |-> ZeroImageJob]
    /\ cenc = [err |-> FALSE, data |-> <<>>]
    /\ cdata = <<>>
    /\ cdec = NoDecode
    /\ SubmitIdle
    /\ WorkerIdle
    /\ PersisterIdle
    /\ chAbsent \in BOOLEAN
    /\ statusLog = <<>>

StatusTick == Tick /\ UNCHANGED <<codecVars, submitVars, workerVars, persistVars, statusVars>>

StatusNext ==
    \/ StatusRequest
    \/ QueueStatusRequest
    \/ ChannelClose
    \/ StatusTick

SpecStatus == StatusInit /\ [][StatusNext]_vars

\* ------------------------------------------------------------------------
\* Properties of the worker pool
\* ------------------------------------------------------------------------
\* positions of a task inside processJob
RunningPcs == {"decode", "download", "transform", "upload", "publish"}

\* tasks whose processJob has started and not yet returned
Running == {t \in DOMAIN tasks : tasks[t].pc \in RunningPcs}

\* tasks that hold a slot of sem: spawned, and their deferred <-sem not yet run
Holding == {t \in DOMAIN tasks : tasks[t].pc \in RunningPcs \cup {"release"}}

\* processJob of task t has returned
Finished(t) == t \in DOMAIN tasks /\ tasks[t].pc \in {"release", "dec", "wgdone", "exited"}

\* the result messages task t has published, as positions of resultQueue
ResultsOf(t) == {i \in DOMAIN rtask : rtask[i] = t}

\* the stage of the task ran and returned the given outcome
StageWas(task, stage, ok) == \E i \in DOMAIN task.log : task.log[i] = [stage |-> stage, ok |-> ok]

\* a download, transform or upload of the task failed
StageFailed(task) == \E s \in {"download", "transform", "upload"} : StageWas(task, s, FALSE)

\* C3: in every reachable state of the pool, whatever the deliveries, at most
\* concurrencyLimit (5) tasks have started and not yet finished; not even the
\* tasks that still hold their slot after processJob has returned exceed it.
C3_AtMostKInFlight ==
    /\ Cardinality(Running) <= concurrencyLimit
    /\ Cardinality(Holding) <= concurrencyLimit

\* five jobs are being processed and a sixth delivery waits for a slot
C3_Witness ==
    /\ Cardinality(Running) = concurrencyLimit
    /\ lpc = "acquire"
    /\ delivered > concurrencyLimit

\* what the code leaves task to do with its delivery, judged from what the
\* task itself was handed: the message decodes to a job with a url and a
\* type the switch knows, and its own download, upload and publish succeeded
WouldSucceed(task) ==
    LET d == DecodeBody(task.Body) IN
    /\ ~d.err
    /\ Len(d.payload[1].URLs) > 0
    /\ Len(d.payload[1].ProcessingTypes) > 0
    /\ d.payload[1].ProcessingTypes[1] \in supportedProcessingTypes
    /\ StageWas(task, "download", TRUE)
    /\ StageWas(task, "upload", TRUE)
    /\ StageWas(task, "publish", TRUE)

\* every task that has ended is Done with exactly one result message or
\* Dropped with none, as its own inputs decide, whatever happened to the
\* other tasks; no task has more than one result; while the process lives
\* the slots taken are the slots of the tasks that have not ended
C4_OutcomeIsOwn ==
    /\ \A t \in DOMAIN tasks :
          /\ Cardinality(ResultsOf(t)) <= 1
          /\ Finished(t) =>
                Cardinality(ResultsOf(t)) = IF WouldSucceed(tasks[t]) THEN 1 ELSE 0
    /\ crashed \/ sem = Cardinality(Holding)

\* C4: a download, transform or upload failure of one job changes the outcome
\* of no other job: each job ends Done with exactly one result message or
\* Dropped as its own inputs decide, a failed job leaves no slot taken, and
\* every delivery is taken up and its task ends, unless the worker's channel
\* is closed before the delivery is received or the process panics.
C4_Isolation ==
    /\ []C4_OutcomeIsOwn
    /\ \A t \in 1..MaxDeliveries :
          /\ (delivered >= t) ~> (t \in DOMAIN tasks \/ wClosed \/ crashed)
          /\ (t \in DOMAIN tasks) ~> (Finished(t) \/ crashed)

\* a job whose stage failed still holds its slot while a job spawned after it
\* has ended with its one result message
C4_Witness ==
    \E t \in DOMAIN tasks, u \in DOMAIN tasks :
       /\ t < u
       /\ StageFailed(tasks[t])
       /\ tasks[t].pc = "release"
       /\ tasks[u].pc = "exited"
       /\ Cardinality(ResultsOf(u)) = 1

\* the result payload carried by message i of the result queue
ResultAt(i) == Decode("ImageProcessedPayload", resultQueue[i].Body[1])

\* C5: every message on the result queue was published by a task whose
\* download, transform dispatch and upload all succeeded, and carries status
\* success; a task whose download, transform or upload failed has published
\* no message, and the worker puts no message on the job queue.
C5_ResultOnlyOnSuccess ==
    /\ Len(rtask) = Len(resultQueue)
    /\ \A i \in DOMAIN resultQueue :
          /\ rtask[i] \in DOMAIN tasks
          /\ StageWas(tasks[rtask[i]], "download", TRUE)
          /\ StageWas(tasks[rtask[i]], "transform", TRUE)
          /\ StageWas(tasks[rtask[i]], "upload", TRUE)
          /\ ~ResultAt(i).err
          /\ ResultAt(i).payload[1].Status = "success"
    /\ \A t \in DOMAIN tasks : StageFailed(tasks[t]) => ResultsOf(t) = {}
    /\ Len(workQueue) + Len(lmsg) + Len(tasks) = delivered

\* one job has published its result and another has ended after a failed
\* download, transform or upload
C5_Witness ==
    \E t \in DOMAIN tasks, u \in DOMAIN tasks :
       /\ ResultsOf(t) # {}
       /\ Finished(u)
       /\ StageFailed(tasks[u])

\* task t has ended without a result message
Dropped(t) == Finished(t) /\ ResultsOf(t) = {}

\* the deliveries of "image.urls" in order: those the tasks got, the one the
\* loop holds, those still queued
DeliveryBodies ==
    [i \in DOMAIN tasks |-> tasks[i].Body] \o [i \in DOMAIN lmsg |-> lmsg[i].Body]
       \o [i \in DOMAIN workQueue |-> workQueue[i].Body]

\* C11: nothing is retried or redelivered.  Each message put on the work
\* queue is in one place only (queued, held by the loop, or handed to one
\* task), a step changes the work queue only by a new arrival at its end or
\* by the delivery of its head, the result queue only grows at its end, and
\* a task that has ended stays ended with the results it had: a dropped job
\* re-enters no queue.
C11_NoRetryNoRedelivery ==
    [][/\ Len(DeliveryBodies) = delivered
       /\ \/ DeliveryBodies' = DeliveryBodies
          \/ /\ delivered' = delivered + 1
             /\ SubSeq(DeliveryBodies', 1, delivered) = DeliveryBodies
       /\ \/ workQueue' = workQueue
          \/ workQueue # <<>> /\ workQueue' = Tail(workQueue)
          \/ /\ Len(workQueue') = Len(workQueue) + 1
             /\ delivered' = delivered + 1
       /\ Len(resultQueue') >= Len(resultQueue)
       /\ SubSeq(resultQueue', 1, Len(resultQueue)) = resultQueue
       /\ \A t \in DOMAIN tasks :
             Finished(t) => /\ Finished(t)'
                            /\ ResultsOf(t)' = ResultsOf(t)
                            /\ tasks'[t].log = tasks[t].log]_vars

\* a job has been dropped after a failed stage and a later job has ended too
C11_Witness ==
    \E t \in DOMAIN tasks, u \in DOMAIN tasks :
       /\ t < u
       /\ Dropped(t)
       /\ StageFailed(tasks[t])
       /\ tasks[u].pc = "exited"
       /\ workQueue = <<>>

\* ------------------------------------------------------------------------
\* Properties of the result persister
\* ------------------------------------------------------------------------
\* the consumed messages that ended with the given outcome, as positions
SeenWith(outcome) == {i \in DOMAIN pseen : pseen[i].outcome = outcome}

WasStored(e) == e.outcome = "success"

\* the record a consumed message is stored as
RecordOfSeen(e) == RecordOf(DecodeResult(e.Body).env[1], DecodeResult(e.Body).payload[1])

\* the records of the consumed messages whose insert succeeded, in order
StoredRecords ==
    LET stored == SelectSeq(pseen, WasStored) IN [i \in DOMAIN stored |-> RecordOfSeen(stored[i])]

\* C12: in the result persister a failed insert is counted as an error and
\* leaves no record; the message is consumed all the same and never comes
\* back; the loop goes on (it ends only when its channel is closed), and each
\* later message is stored as its own content and its own insert decide,
\* whatever happened to the earlier ones.
C12_FailedInsertIsSkipped ==
    /\ recordsStored.error = Cardinality(SeenWith("error"))
    /\ recordsStored.success = Cardinality(SeenWith("success"))
    /\ db = StoredRecords
    /\ Len(pseen) + Len(pmsg) + Len(resultQueue) = rarrived
    /\ ppc = "returned" => pClosed

\* an insert has failed and a later message has been stored
C12_Witness ==
    \E i \in DOMAIN pseen, j \in DOMAIN pseen :
       /\ i < j
       /\ pseen[i].outcome = "error"
       /\ pseen[j].outcome = "success"
       /\ Len(db) = 1

\* ------------------------------------------------------------------------
\* Properties of the pipeline
\* ------------------------------------------------------------------------
\* the stored records that carry the url and the type of job j of the fanout
RecordsOfJob(j) ==
    {i \in DOMAIN db : /\ db[i].SourceURL = JobOf(hpub[j]).URLs[1]
                       /\ db[i].ProcessingType = JobOf(hpub[j]).ProcessingTypes[1]}

\* C13: when no download, transform, upload, publish, decode or insert fails
\* and no process crashes, under fair scheduling every job the fanout has
\* published leads to exactly one stored record with the job's source_url and
\* processing_type; at no time are there two.
C13_JobLeadsToOneRecord ==
    /\ [](\A j \in DOMAIN hpub : Cardinality(RecordsOfJob(j)) <= 1)
    /\ \A j \in 1..MaxDeliveries :
          (Len(hpub) >= j) ~> (Len(hpub) >= j /\ Cardinality(RecordsOfJob(j)) = 1)

\* both jobs of a submission with one type have their record
C13_Witness ==
    /\ Len(hpub) = 2
    /\ Len(db) = 2
    /\ \A j \in DOMAIN hpub : Cardinality(RecordsOfJob(j)) = 1

\* the bodies of the result messages published so far: consumed or queued
ResultBodies == {pseen[i].Body : i \in DOMAIN pseen} \cup {resultQueue[i].Body : i \in DOMAIN resultQueue}

\* every job envelope, result envelope, result payload and stored record of
\* the submission carries the trace id trace
TraceIsEverywhere(trace) ==
    /\ \A i \in DOMAIN hpub : Decode("ImageJob", hpub[i].Body[1]).env[1].TraceID = trace
    /\ \A body \in ResultBodies :
          /\ DecodeResult(body).env[1].TraceID = trace
          /\ DecodeResult(body).payload[1].TraceID = trace
    /\ \A i \in DOMAIN db : db[i].TraceID = trace

\* C14, as claimed: the X-Trace-ID of the submission, empty when absent, is
\* carried unchanged by every job envelope, result envelope, result payload
\* and stored record.
C14_TraceUnchanged == hpc # "idle" => TraceIsEverywhere(hTraceID)

\* C14: the X-Trace-ID of the submission, empty when absent, is carried by
\* every job envelope, result envelope, result payload and stored record,
\* unchanged when it is valid UTF-8 and with U+FFFD for each invalid byte
\* otherwise; all of them carry the same trace id.
C14_TraceCarriedAsUTF8 == hpc # "idle" => TraceIsEverywhere(ToValidUTF8(hTraceID))

\* both jobs of a submission with a trace id have their record stored
C14_Witness ==
    /\ hTraceID # ""
    /\ Len(hpub) = 2
    /\ Len(db) = 2
    /\ resultQueue = <<>>

\* the envelope of the last message of a queue of job messages, or of result
\* messages
LastJobEnvelope(queue) == Decode("ImageJob", queue[Len(queue)].Body[1]).env[1]

LastResultEnvelope(queue) == DecodeResult(queue[Len(queue)].Body).env[1]

\* C15: the timestamp of an envelope is the time at which its producer
\* encoded it: a step of the fanout that publishes a job, and a step of a
\* task that publishes a result, stamp the envelope with the time of that
\* step; a step of the persister that stores a record gives it the timestamp
\* of the result envelope it consumed as processed-at time, not the time of
\* the receipt or of the insert.
C15_TimestampIsEncodeTime ==
    [][/\ Len(hpub') > Len(hpub) => LastJobEnvelope(hpub').Timestamp = now
       /\ Len(rtask') > Len(rtask) => LastResultEnvelope(resultQueue').Timestamp = now
       /\ Len(db') > Len(db) =>
             db'[Len(db')].ProcessedAt = LastResultEnvelope(<<Head(pmsg)>>).Timestamp]_vars

\* a record is stored at a later time than the time its result was encoded
C15_Witness ==
    /\ Len(db) = 1
    /\ Len(pseen) = 1
    /\ pseen[1].outcome = "success"
    /\ pseen[1].at > db[1].ProcessedAt
    /\ db[1].ProcessedAt = DecodeResult(pseen[1].Body).env[1].Timestamp

Released == {t \in DOMAIN tasks : tasks[t].pc \in {"dec", "wgdone", "exited", "panic"}}

\* the way task t has ended: the stage that failed, or "success"
EndOf(t) ==
    IF \E i \in DOMAIN tasks[t].log : ~tasks[t].log[i].ok
    THEN (CHOOSE e \in {tasks[t].log[i] : i \in DOMAIN tasks[t].log} : ~e.ok).stage
    ELSE IF tasks[t].pc = "panic" THEN "panic" ELSE "success"

\* C17: every task releases its slot when it ends, whichever way it ends:
\* the slots taken are exactly those of the tasks that have not yet run
\* their deferred release, so that no slot is held once every started task
\* is past it.
C17_SlotAlwaysReleased ==
    /\ sem = Cardinality(DOMAIN tasks \ Released)
    /\ Released = DOMAIN tasks => sem = 0

\* two tasks have ended in different ways, one of them with an error, and no
\* slot is held
C17_Witness ==
    /\ Len(tasks) = 2
    /\ Released = DOMAIN tasks
    /\ EndOf(1) # EndOf(2)
    /\ EndOf(1) # "success"
    /\ sem = 0

\* the body of task t decodes to a job that does not carry exactly one url
\* and exactly one processing type
Malformed(t) ==
    LET d == DecodeBody(tasks[t].Body) IN
    /\ ~d.err
    /\ Len(d.payload[1].URLs) # 1 \/ Len(d.payload[1].ProcessingTypes) # 1

\* the stage was run by the task, whatever its outcome
StageRan(task, stage) == \E i \in DOMAIN task.log : task.log[i].stage = stage

\* C18: a job that does not carry exactly one url and exactly one processing
\* type is dropped as malformed: its task returns from processJob without a
\* download, an upload or a result message.
C18_MalformedIsDropped ==
    \A t \in DOMAIN tasks :
        Malformed(t) =>
            /\ tasks[t].pc # "panic"
            /\ ~StageRan(tasks[t], "download")
            /\ ~StageRan(tasks[t], "upload")
            /\ ResultsOf(t) = {}

\* the tasks that have returned from processImage with an error
Failed == {t \in DOMAIN tasks : \E i \in DOMAIN tasks[t].log :
              tasks[t].log[i].stage # "decode" /\ ~tasks[t].log[i].ok}

\* the task is past the switch of processImage
PastDispatch(task) == StageRan(task, "download") /\ task.pc \notin {"download", "transform"}

Stages == <<"decode", "download", "transform", "upload", "publish">>

\* C20: within a job the stages run strictly in sequence: what a task has
\* run is a prefix of decode, download, transform, upload, publish, each stage
\* but the last one run having succeeded, so that no stage is run after a
\* failed one, and a result is published only after the upload has succeeded.
C20_StagesSequential ==
    \A t \in DOMAIN tasks :
        /\ Len(tasks[t].log) <= Len(Stages)
        /\ \A i \in DOMAIN tasks[t].log :
              /\ tasks[t].log[i].stage = Stages[i]
              /\ i < Len(tasks[t].log) => tasks[t].log[i].ok
        /\ ResultsOf(t) # {} =>
              /\ StageWas(tasks[t], "download", TRUE)
              /\ StageWas(tasks[t], "transform", TRUE)
              /\ StageWas(tasks[t], "upload", TRUE)

\* one task has run all five stages and published its result, another has
\* stopped at its failed upload
C20_Witness ==
    /\ Len(tasks) = 2
    /\ Len(tasks[1].log) = 5 /\ tasks[1].log[5].ok /\ ResultsOf(1) # {}
    /\ Len(tasks[2].log) = 4 /\ ~tasks[2].log[4].ok
    /\ Finished(2) /\ ResultsOf(2) = {}

\* the tasks whose delivery could not be decoded and that are past the Decode
Undecodable == {t \in DOMAIN tasks : DecodeBody(tasks[t].Body).err /\ tasks[t].pc # "decode"}

\* C21: a delivery whose envelope or job cannot be decoded is dropped: its
\* task runs nothing but the failed decode, so no download, upload or result
\* publish, the counter decode_error has gone up by one for each such task,
\* and the message is on no queue any more (it is not retried).
C21_DecodeFailureIsDropped ==
    /\ \A t \in Undecodable :
          /\ tasks[t].log = <<[stage |-> "decode", ok |-> FALSE]>>
          /\ ResultsOf(t) = {}
          /\ Finished(t)
    /\ JobsProcessed.decode_error = Cardinality(Undecodable)
    /\ Len(tasks) + Len(lmsg) + Len(workQueue) = delivered

\* a delivery whose envelope decodes and whose payload does not has been
\* dropped and counted, its task is over, and the task of a later delivery
\* has published its result
C21_Witness ==
    /\ Len(tasks) = 2
    /\ 1 \in Undecodable
    /\ DecodeBody(tasks[1].Body).env # <<>>
    /\ tasks[1].pc = "exited"
    /\ JobsProcessed.decode_error = 1
    /\ ResultsOf(2) # {}
    /\ workQueue = <<>>

\* the message carries a job of exactly one url, one of the submission's,
\* and exactly one processing type, one of the five allowed
IsSingleJob(m) ==
    /\ m.Body # <<>>
    /\ LET d == Decode("ImageJob", m.Body[1]) IN
       /\ ~d.err
       /\ Len(d.payload[1].URLs) = 1
       /\ d.payload[1].URLs[1] \in Range(hjob.URLs)
       /\ Len(d.payload[1].ProcessingTypes) = 1
       /\ d.payload[1].ProcessingTypes[1] \in {"original", "grayscale", "resize", "blur", "sharpen"}

\* C22: every message the fanout has put on the work queue carries exactly
\* one url, taken from the urls of the submission, and exactly one
\* processing type, which is one of the allowed ones.
C22_JobsAreSingle ==
    /\ \A i \in DOMAIN workQueue : IsSingleJob(workQueue[i])
    /\ \A i \in DOMAIN hpub : IsSingleJob(hpub[i])

\* a submission of two urls and two types has been expanded into six
\* messages on the work queue
C22_Witness ==
    /\ hresp.code = 202
    /\ Len(hjob.URLs) = 2
    /\ hjob.URLs[1] # hjob.URLs[2]
    /\ hjob.ProcessingTypes = <<"grayscale", "blur">>
    /\ Len(workQueue) = 6

\* C23: the persister handles one message at a time: the loop holds at most
\* one message, it holds one exactly while it is in the body of the loop,
\* and it takes the next message from the queue only after the decode and
\* the insert of the current one have finished.
C23_OneAtATime ==
    /\ Len(pmsg) <= 1
    /\ ppc = "store" <=> pmsg # <<>>
    /\ Len(pseen) + Len(pmsg) + Len(resultQueue) = rarrived

\* a message is in the loop body, not yet stored, while the next one waits
\* in the queue
C23_Witness ==
    /\ pseen = <<>>
    /\ Len(pmsg) = 1
    /\ ppc = "store"
    /\ Len(resultQueue) = 1
    /\ db = <<>>

\* C24: the consume loop waits for a slot and for nothing else.  It can start
\* the task of the delivery it holds whenever fewer than concurrencyLimit
\* slots are held; a task is started only in such a state, so a delivery
\* received while all slots are held waits for a release; and the step that
\* starts a task takes the loop straight back to the receive, whatever the
\* tasks in flight are doing.
C24_LoopWaitsOnlyWhenFull ==
    /\ []((lpc = "acquire" /\ Cardinality(Holding) < concurrencyLimit) => ENABLED StartSpawn)
    /\ [][Len(tasks') > Len(tasks) =>
             /\ Cardinality(Holding) < concurrencyLimit
             /\ Cardinality(Holding') = Cardinality(Holding) + 1
             /\ Holding \subseteq Holding'
             /\ lpc' = "recv"]_vars

\* the sixth delivery was received while five tasks held the five slots, and
\* its task has been started after the first task released its slot: again
\* five tasks are in flight
C24_Witness ==
    /\ Len(tasks) = concurrencyLimit + 1
    /\ Holding = 2..(concurrencyLimit + 1)
    /\ Cardinality(Running) = concurrencyLimit
    /\ sem = concurrencyLimit

Ended == {t \in DOMAIN tasks : Finished(t) \/ tasks[t].pc = "panic"}

\* C26: every delivered message is counted once: the counters decode_error,
\* error and success of the worker sum to the number of tasks whose
\* processJob is over.
C26_EveryJobCounted ==
    JobsProcessed.decode_error + ImagesProcessed.error + ImagesProcessed.success
        = Cardinality(Ended)

\* C27: delivery is at most once end to end.  Every job of the fanout is on
\* the work queue, in the hands of the loop or in the hands of exactly one
\* task; a task publishes at most one result; every result is on the result
\* queue, in the hands of the persister or consumed by it once; and a record
\* is stored only for a consumed result: records <= results <= jobs.
C27_AtMostOnce ==
    /\ Len(tasks) + Len(lmsg) + Len(workQueue) = Len(hpub)
    /\ \A t \in DOMAIN tasks : Cardinality(ResultsOf(t)) <= 1
    /\ Len(rtask) <= Len(tasks)
    /\ Len(pseen) + Len(pmsg) + Len(resultQueue) = Len(rtask)
    /\ Len(db) <= Len(pseen)
    /\ Len(db) <= Len(rtask) /\ Len(rtask) <= Len(hpub)
    /\ \A j \in DOMAIN hpub : Cardinality(RecordsOfJob(j)) <= 1

\* of two jobs published, both had their result published, one result led
\* to a record and the insert of the other failed
C27_Witness ==
    /\ Len(hpub) = 2
    /\ Len(rtask) = 2
    /\ Len(pseen) = 2
    /\ Len(db) = 1

\* the body of task t decodes to a job with an empty list of urls or of
\* processing types
EmptyJob(t) ==
    LET d == DecodeBody(tasks[t].Body) IN
    /\ ~d.err
    /\ Len(d.payload[1].URLs) = 0 \/ Len(d.payload[1].ProcessingTypes) = 0

\* C28: no delivery makes a task fail outside its own job: the task of a job
\* with an empty list returns from processJob without a result, to release
\* its slot, and the process, so the loop and the other tasks, keeps running.
C28_EmptyJobEndsOnlyItsTask ==
    /\ ~crashed
    /\ \A t \in DOMAIN tasks :
          (EmptyJob(t) /\ tasks[t].pc # "decode") => Dropped(t)

\* C29: the pool cannot deadlock.  Whenever the loop is blocked at the send
\* on sem some task is in flight and holds a slot, and, every in-flight task
\* terminating, every delivery the loop has received eventually has its task
\* started and run to its end: again and again the loop holds no delivery
\* and all the tasks started are over.
C29_NoDeadlock ==
    /\ []((lpc = "acquire" /\ ~ENABLED StartSpawn) => Holding # {})
    /\ []<>(lmsg = <<>> /\ \A t \in DOMAIN tasks : tasks[t].pc = "exited")

\* the loop was blocked with all slots held, and every delivery of more than
\* concurrencyLimit has had its task started and finished
C29_Witness ==
    /\ Len(tasks) > concurrencyLimit
    /\ \A t \in DOMAIN tasks : tasks[t].pc = "exited"
    /\ lpc = "recv"
    /\ sem = 0

\* tasks whose goroutine has not yet run its ActiveWorkers.Dec()
BeforeGaugeDec == {t \in DOMAIN tasks : tasks[t].pc \notin {"wgdone", "exited", "panic"}}

\* C30: the gauge active_workers never exceeds concurrencyLimit, is never
\* negative, and is 0 whenever no task is in flight.
C30_GaugeWithinLimit ==
    /\ ActiveWorkers <= concurrencyLimit
    /\ ActiveWorkers >= 0
    /\ BeforeGaugeDec = {} => ActiveWorkers = 0

\* C31: two tasks that both uploaded the image of their job, the jobs being
\* of different urls, have stored it under different object names, so that
\* their results carry different storage paths.
C31_DistinctObjectNames ==
    \A s, t \in DOMAIN tasks :
       (/\ tasks[s].url # tasks[t].url
        /\ StageWas(tasks[s], "upload", TRUE)
        /\ StageWas(tasks[t], "upload", TRUE))
          => GetImageURL(tasks[s].filename) # GetImageURL(tasks[t].filename)

\* C32: once a request is answered, the counter images_submitted_total equals
\* the number of job messages published to the work queue, the jobs of a
\* fanout that ended with 500 included.
C32_CounterEqualsPublished ==
    hpc = "done" => imagesSubmitted = Len(hpub)

\* C33: a job is counted as success exactly when its result was published:
\* the success counter is the number of results published, every task that
\* returned an error is counted under error, and a task whose publish failed
\* after its upload is among them, has no result message and no record, and
\* the object it has uploaded is still stored under its name.
C33_SuccessIffPublished ==
    /\ ImagesProcessed.success = Len(rtask)
    /\ ImagesProcessed.error = Cardinality(Failed)
    /\ \A t \in DOMAIN tasks :
          /\ ResultsOf(t) # {} => t \notin Failed
          /\ StageWas(tasks[t], "publish", FALSE) =>
                /\ StageWas(tasks[t], "upload", TRUE)
                /\ t \in Failed
                /\ ResultsOf(t) = {}
                /\ RecordsOfJob(t) = {}
                /\ tasks[t].filename \in {UploadImage(c) : c \in 1..now}
                /\ tasks[t].uploaded = tasks[t].processedImg

\* of two jobs one was published and stored, and the publish of the other
\* failed after its upload: it is counted under error
C33_Witness ==
    /\ Len(tasks) = 2
    /\ StageWas(tasks[2], "upload", TRUE)
    /\ StageWas(tasks[2], "publish", FALSE)
    /\ tasks[2].pc = "exited"
    /\ ResultsOf(1) # {}
    /\ Len(db) = 1
    /\ ImagesProcessed = [success |-> 1, error |-> 1]

\* C34: a failure of the size query after the upload does not drop the job.
\* A task whose size query failed while the channel was open has published
\* its result in the same step, and the result of a task whose size query
\* failed carries status success and file_size 0.
C34_SizeFailureStillPublishes ==
    /\ [](\A t \in DOMAIN tasks :
            (tasks[t].sizeFailed /\ StageWas(tasks[t], "publish", TRUE)) =>
               /\ Cardinality(ResultsOf(t)) = 1
               /\ \A i \in ResultsOf(t) :
                     /\ ~ResultAt(i).err
                     /\ ResultAt(i).payload[1].Status = "success"
                     /\ ResultAt(i).payload[1].FileSize = 0)
    /\ [][\A t \in DOMAIN tasks :
            (tasks[t].pc = "publish" /\ tasks'[t].pc # "publish" /\ tasks'[t].sizeFailed /\ ~wClosed) =>
               /\ resultQueue' # resultQueue
               /\ rtask' = Append(rtask, t)
               /\ StageWas(tasks'[t], "publish", TRUE)
               /\ ImagesProcessed'.success = ImagesProcessed.success + 1]_vars

\* a task whose size query failed has published its result with file_size 0,
\* and a task whose size query succeeded has published the size
C34_Witness ==
    /\ Len(tasks) = 2
    /\ tasks[1].sizeFailed
    /\ ResultsOf(1) = {1}
    /\ ResultAt(1).payload[1].FileSize = 0
    /\ ResultAt(1).payload[1].Status = "success"
    /\ ~tasks[2].sizeFailed
    /\ ResultsOf(2) = {2}
    /\ ResultAt(2).payload[1].FileSize = 3

\* C35: every result message on the result queue was published by one task,
\* no task has published two, and its source_url and processing_type are the
\* url and the type of the job that task was handed: no result names a url
\* or a type that no delivered job carried.
C35_ResultMatchesJob ==
    /\ Len(rtask) = Len(resultQueue)
    /\ \A i \in DOMAIN resultQueue :
          /\ rtask[i] \in DOMAIN tasks
          /\ \A j \in DOMAIN rtask : rtask[j] = rtask[i] => j = i
          /\ ~ResultAt(i).err
          /\ LET d == DecodeBody(tasks[rtask[i]].Body)
             IN /\ ~d.err
                /\ d.payload[1].URLs = <<ResultAt(i).payload[1].SourceURL>>
                /\ d.payload[1].ProcessingTypes = <<ResultAt(i).payload[1].ProcessingType>>

\* the jobs <<u1, original>> and <<u2, blur>> were delivered in this order and
\* their results published in the other order, each with the url and the type
\* of its own job
C35_Witness ==
    /\ Len(tasks) = 2
    /\ rtask = <<2, 1>>
    /\ ResultAt(1).payload[1].SourceURL = "u2"
    /\ ResultAt(1).payload[1].ProcessingType = "blur"
    /\ ResultAt(2).payload[1].SourceURL = "u1"
    /\ ResultAt(2).payload[1].ProcessingType = "original"

\* C36: a request whose body does not parse as a submission is answered 400
\* and publishes nothing, and whenever a publish has been attempted the body
\* has parsed and every entry of processing_types is an allowed type.
C36_NoPublishBeforeValidation ==
    /\ (hpc # "idle" /\ UnmarshalPayload("ImageJob", hbody).err) =>
          /\ hpc = "done"
          /\ hresp.code = 400
          /\ hattempts = 0
          /\ hpub = <<>>
          /\ workQueue = <<>>
          /\ imagesSubmitted = 0
    /\ (hattempts > 0 \/ hpub # <<>> \/ workQueue # <<>>) =>
          /\ ~UnmarshalPayload("ImageJob", hbody).err
          /\ \A i \in DOMAIN hjob.ProcessingTypes : ~IsNotAllowed(hjob.ProcessingTypes[i])
          /\ hjob = UnmarshalPayload("ImageJob", hbody).v

\* a body whose urls member is a string instead of a list was answered 400
\* with nothing published
C36_Witness ==
    /\ hpc = "done"
    /\ hbody = <<JObject([urls |-> JString("u1")])>>
    /\ UnmarshalPayload("ImageJob", hbody).err
    /\ hresp.code = 400
    /\ hattempts = 0
    /\ workQueue = <<>>

ResultDeliveries ==
    [i \in DOMAIN pseen |-> pseen[i].Body] \o [i \in DOMAIN pmsg |-> pmsg[i].Body]
       \o [i \in DOMAIN resultQueue |-> resultQueue[i].Body]

\* C38: the persister stores records in the order of delivery.  The messages
\* are consumed in the order they were delivered, the table holds the records
\* of the consumed messages whose insert succeeded, in that order, and it
\* grows only at its end; a message that does not decode is counted under
\* decode_error and has no record.
C38_StoredInDeliveryOrder ==
    /\ [](/\ db = StoredRecords
          /\ \A i \in DOMAIN pseen :
                DecodeResult(pseen[i].Body).err <=> pseen[i].outcome = "decode_error"
          /\ recordsStored.decode_error = Cardinality(SeenWith("decode_error"))
          /\ Len(db) = Cardinality(SeenWith("success")))
    /\ [][/\ \/ ResultDeliveries' = ResultDeliveries
             \/ /\ rarrived' = rarrived + 1
                /\ Len(ResultDeliveries') = Len(ResultDeliveries) + 1
                /\ SubSeq(ResultDeliveries', 1, Len(ResultDeliveries)) = ResultDeliveries
          /\ Len(db') >= Len(db)
          /\ SubSeq(db', 1, Len(db)) = db]_vars

\* the result for u2 was delivered before the result for u1 and both are
\* stored: the record of u2 is the first row
C38_Witness ==
    /\ Len(pseen) = 2
    /\ pseen[1].at < pseen[2].at
    /\ Len(db) = 2
    /\ db[1].SourceURL = "u2"
    /\ db[2].SourceURL = "u1"
    /\ db[1] = RecordOfSeen(pseen[1])

====
